---- MODULE Spec2Model ----
(***************************************************************************)
(* Stock analysis dashboard: the indicator calculator, the signal          *)
(* detectors, the scorer (analyze_stock), the ranker                       *)
(* (get_potential_stocks), the Alpha Vantage rate limiter (_make_request), *)
(* the batch route handlers, the conversion of the provider's daily series *)
(* (get_daily_data) and the signal store (save_signals).                   *)
(*                                                                         *)
(* Conventions.  Python rows are 0-based, TLA+ sequences 1-based: Python   *)
(* index i is row i+1 here.  A date is a day number; bar k of a sequence   *)
(* is dated day k.  A float is an exact extended rational [n, d]: d > 0 a  *)
(* finite value, [1,0] and [-1,0] the infinities, [0,0] NaN.  Prices and   *)
(* volumes are small integers, for which the float sums of the code are    *)
(* exact.                                                                  *)
(***************************************************************************)
EXTENDS Integers, Sequences, FiniteSets, TLC

VARIABLES
    inp,                \* the provider's answer for one symbol (a bar family)
    data,               \* the DataFrame of StockDataService (rows, columns added in place)
    signals,            \* the list the last operation returned, if a detector
    result,             \* the dict the last operation returned, if analyze_stock
    op,                 \* the operation that ran last
    world,              \* what the provider (or the mock's random draw) answers per symbol
    req,                \* the service call or HTTP request being answered
    resp,               \* what it returned
    clock,              \* time.time(), in whole seconds
    last_request_time,  \* AlphaVantageService.last_request_time
    thr,                \* the threads inside _make_request: where each one is
    sent,               \* the times at which the requests went out, in order
    raised,             \* some request ended in a RequestException
    signals_table,      \* the committed rows of the table `signals`
    session,            \* db.session of each thread inside save_signals or save_stock_data
    stocks_table,       \* the committed rows of the table `stocks`: the id of each symbol
    daily_data_table    \* the committed rows of the table `daily_data`

vars == <<inp, data, signals, result, op, world, req, resp,
          clock, last_request_time, thr, sent, raised, signals_table, session,
          stocks_table, daily_data_table>>

(***************************************************************************)
(* Floats as extended rationals                                            *)
(***************************************************************************)
Abs(x) == IF x < 0 THEN -x ELSE x

Sign(x) == IF x < 0 THEN -1 ELSE IF x > 0 THEN 1 ELSE 0

RECURSIVE GCD(_, _)
GCD(a, b) == IF b = 0 THEN a ELSE GCD(b, a % b)

Rat(n, d) ==
    IF d = 0 THEN [n |-> Sign(n), d |-> 0]
    ELSE LET g == GCD(Abs(n), Abs(d))
             s == Sign(d)
         IN  [n |-> (s * n) \div g, d |-> (s * d) \div g]

NaN == [n |-> 0, d |-> 0]

IsNaN(x) == x.n = 0 /\ x.d = 0

notna(x) == ~IsNaN(x)

Int2Rat(k) == [n |-> k, d |-> 1]

RLt(a, b) == notna(a) /\ notna(b) /\ a.n * b.d < b.n * a.d

RLe(a, b) == notna(a) /\ notna(b) /\ a.n * b.d <= b.n * a.d

RGt(a, b) == RLt(b, a)

RGe(a, b) == RLe(b, a)

REq(a, b) == notna(a) /\ notna(b) /\ a.n * b.d = b.n * a.d /\ (a.d = 0) = (b.d = 0)

RAdd(a, b) == Rat(a.n * b.d + b.n * a.d, a.d * b.d)

RMul(a, b) == Rat(a.n * b.n, a.d * b.d)

\* numpy division: x/0 is an infinity, 0/0 is NaN
RDiv(a, b) ==
    IF IsNaN(a) \/ IsNaN(b) THEN NaN
    ELSE IF b.d = 0 THEN (IF a.d = 0 THEN NaN ELSE Int2Rat(0))
    ELSE IF b.n = 0 THEN Rat(a.n, 0)
    ELSE Rat(a.n * b.d * Sign(b.n), a.d * Abs(b.n))

\* Python's min(a, b): b when b < a, else a.
PyMin(a, b) == IF RLt(b, a) THEN b ELSE a

\* round(x, 2) of a finite x: the nearest hundredth, an exact tie to the even one.
Round2(x) ==
    LET h == (100 * x.n) \div x.d
        r == 100 * x.n - h * x.d
    IN  IF 2 * r > x.d \/ (2 * r = x.d /\ h % 2 = 1)
        THEN Rat(h + 1, 100) ELSE Rat(h, 100)

RECURSIVE SumTo(_, _, _)
\* sum(f[j] for j in range(lo, hi+1))
SumTo(f, lo, hi) == IF lo > hi THEN 0 ELSE f[hi] + SumTo(f, lo, hi - 1)

RECURSIVE RSum(_, _)
\* sum(s) of a list of floats, left to right from 0
RSum(s, k) == IF k = 0 THEN Int2Rat(0) ELSE RAdd(RSum(s, k - 1), s[k])

RECURSIVE Filter(_, _, _)
\* the subsequence of the rows k <= n of s with keep[k]
Filter(s, keep, n) ==
    IF n = 0 THEN <<>>
    ELSE IF keep[n] THEN Append(Filter(s, keep, n - 1), s[n])
    ELSE Filter(s, keep, n - 1)

\* Python's s[-k:] for k > 0
PyLast(s, k) == IF Len(s) <= k THEN s ELSE SubSeq(s, Len(s) - k + 1, Len(s))

\* Python's s[:k]; a negative k counts from the end
PyHead(s, k) ==
    IF k >= 0 THEN SubSeq(s, 1, IF k < Len(s) THEN k ELSE Len(s))
    ELSE SubSeq(s, 1, IF Len(s) + k > 0 THEN Len(s) + k ELSE 0)

(***************************************************************************)
(* The provider's data.  One answer of the provider is a bar family: len   *)
(* bars dated 1..len; the volume is vbase on every day but vday, where it  *)
(* is vmult times vbase plus vextra; the close is BasePrice, raised by gap *)
(* from gday on ("step"), on gday alone ("spike") or on every even day     *)
(* ("zigzag"); the bar of hday has a lower shadow of 4 under a body of     *)
(* hbody (1: a bullish hammer, 0: a doji), every other bar has             *)
(* open = high = low = close.                                              *)
(***************************************************************************)
BasePrice == 10

MaxBase == 2

MaxGap == 2

MaxMult == 3

Lens == {25, 51, 60}

Shapes == {"flat", "step", "spike", "zigzag"}

Close(i, k) ==
    BasePrice +
    (CASE i.shape = "flat" -> 0
       [] i.shape = "step" -> IF k >= i.gday THEN i.gap ELSE 0
       [] i.shape = "spike" -> IF k = i.gday THEN i.gap ELSE 0
       [] i.shape = "zigzag" -> IF k % 2 = 0 THEN i.gap ELSE 0)

Volume(i, k) == IF k = i.vday THEN i.vmult * i.vbase + i.vextra ELSE i.vbase

Bar(i, k) ==
    LET c == Close(i, k)
        hammer == k = i.hday
    IN  [date |-> k,
         open |-> IF hammer THEN c - i.hbody ELSE c,
         high |-> c,
         low |-> IF hammer THEN c - i.hbody - 3 ELSE c,
         close |-> c,
         volume |-> Volume(i, k)]

\* the ordered bar sequence the provider returns
Bars(i) == [k \in 1..i.len |-> Bar(i, k)]

Base ==
    [len |-> 60, vbase |-> 1, vday |-> 0, vmult |-> 2, vextra |-> 0, shape |-> "flat",
     gday |-> 0, gap |-> 0, hday |-> 0, hbody |-> 1, macdUp |-> 0]

\* a constant close, the volume constant or with one spike
VolumeInputs ==
    { [Base EXCEPT !.len = l, !.vbase = b, !.vday = v, !.vmult = m] :
        l \in Lens, b \in 1..MaxBase, v \in {21, 40, 60}, m \in 2..MaxMult }
    \cup { [Base EXCEPT !.len = l, !.vbase = b] : l \in Lens, b \in 1..MaxBase }

\* a close that moves; after a step up macd stays above macd_signal
CloseInputs ==
    { [Base EXCEPT !.len = l, !.shape = s, !.gday = g, !.gap = h, !.vday = v,
                   !.vmult = MaxMult, !.macdUp = IF s = "step" THEN g ELSE 0] :
        l \in Lens, s \in {"step", "spike"}, g \in {21, 55}, h \in 1..MaxGap,
        v \in {0, 60} }
    \cup { [Base EXCEPT !.len = l, !.shape = "zigzag", !.gap = h, !.vday = v,
                        !.vmult = MaxMult] :
             l \in Lens, h \in 1..MaxGap, v \in {0, 60} }

\* a hammer or a doji on day 30, or on one of the first days
HammerInputs ==
    { [Base EXCEPT !.len = l, !.hday = h, !.hbody = b, !.vday = v, !.vmult = MaxMult] :
        l \in Lens, h \in {1, 2, 3, 10, 30}, b \in {0, 1}, v \in {0, 40} }

\* 19 bars, one short of the 20-day windows, with a volume spike or a step
ShortInputs ==
    { [Base EXCEPT !.len = 19, !.vday = v, !.vmult = MaxMult, !.shape = s, !.gday = g,
                   !.gap = IF s = "flat" THEN 0 ELSE 1,
                   !.macdUp = IF s = "step" THEN g ELSE 0] :
        v \in {0, 19}, s \in {"flat", "step"}, g \in {0, 10, 19} }

\* a step on the second or the third day: macd is above macd_signal from there
EarlyInputs ==
    { [Base EXCEPT !.len = l, !.shape = "step", !.gday = g, !.gap = 1, !.macdUp = g] :
        l \in Lens, g \in {2, 3} }

\* a volume on day 40 that is exactly twice the mean of the 20 days ending
\* there (19 over a base of 9), or exactly twice a twentieth of the sum of the
\* 19 days before it (19 over a base of 10)
ThresholdInputs ==
    { [Base EXCEPT !.vbase = 9, !.vday = 40, !.vmult = 2, !.vextra = 1],
      [Base EXCEPT !.vbase = 10, !.vday = 40, !.vmult = 2, !.vextra = -1] }

\* no volume at all, or none but on one day
ZeroVolumeInputs ==
    { [Base EXCEPT !.len = l, !.vbase = 0, !.vday = v, !.vextra = IF v = 0 THEN 0 ELSE 5] :
        l \in Lens, v \in {0, 21, 40} }

Inputs ==
    { i \in VolumeInputs \cup CloseInputs \cup HammerInputs \cup ShortInputs
             \cup EarlyInputs \cup ThresholdInputs \cup ZeroVolumeInputs :
        /\ i.vday <= i.len /\ i.gday <= i.len /\ i.hday <= i.len
        /\ (i.shape = "flat") = (i.gday = 0) \/ i.shape = "zigzag" }

(***************************************************************************)
(* StockDataService: the indicator calculator                              *)
(***************************************************************************)
Column(d, name) == [k \in 1..Len(d) |-> d[k][name]]

\* a rolling mean with min_periods=1: the mean of the rows there are
RollingMeanPartial(col, w) ==
    [k \in DOMAIN col |->
        IF k < w THEN Rat(SumTo(col, 1, k), k) ELSE Rat(SumTo(col, k - w + 1, k), w)]

\* Series.rolling(window=w).mean() of an integer column: NaN until w rows exist
RollingMean(col, w) ==
    [k \in DOMAIN col |-> IF k < w THEN NaN ELSE Rat(SumTo(col, k - w + 1, k), w)]

\* Series.rolling(window=w).std() squared: the sample variance (ddof = 1)
RollingVar(col, w) ==
    LET sq == [j \in DOMAIN col |-> col[j] * col[j]]
    IN  [k \in DOMAIN col |->
           IF k < w THEN NaN
           ELSE LET S == SumTo(col, k - w + 1, k)
                    Q == SumTo(sq, k - w + 1, k)
                IN  Rat(w * Q - S * S, w * (w - 1))]

\* the losses averaged with their sign: the minus of -delta.where(...) left out
calculate_rsi_signed_loss(prices, period) ==
    LET delta == [j \in DOMAIN prices |-> IF j = 1 THEN 0 ELSE prices[j] - prices[j - 1]]
        gain == RollingMean([j \in DOMAIN prices |-> IF delta[j] > 0 THEN delta[j] ELSE 0], period)
        loss == RollingMean([j \in DOMAIN prices |-> IF delta[j] < 0 THEN delta[j] ELSE 0], period)
    IN  [k \in DOMAIN prices |->
           LET rs == RDiv(gain[k], loss[k])
           IN  RAdd(Int2Rat(100),
                    RMul(Int2Rat(-1), RDiv(Int2Rat(100), RAdd(Int2Rat(1), rs))))]

\* _calculate_rsi: delta = prices.diff() is NaN on the first row, and
\* delta.where(delta > 0, 0) turns that NaN into 0, so 14 rows fill the window
calculate_rsi(prices, period) ==
    LET delta == [j \in DOMAIN prices |-> IF j = 1 THEN 0 ELSE prices[j] - prices[j - 1]]
        gain == RollingMean([j \in DOMAIN prices |-> IF delta[j] > 0 THEN delta[j] ELSE 0], period)
        loss == RollingMean([j \in DOMAIN prices |-> IF delta[j] < 0 THEN -delta[j] ELSE 0], period)
    IN  [k \in DOMAIN prices |->
           LET rs == RDiv(gain[k], loss[k])
           IN  \* 100 - (100 / (1 + rs))
               RAdd(Int2Rat(100),
                    RMul(Int2Rat(-1), RDiv(Int2Rat(100), RAdd(Int2Rat(1), rs))))]

\* _calculate_macd: ewm(span).mean() has no minimum window, so macd and
\* macd_signal are numbers on every row.  Their values are weighted sums with
\* weights (11/13)^j and (25/27)^j; only the order of macd and macd_signal is
\* read downstream, and it is taken from the provider's answer: equal (both 0,
\* as for a constant close) before day macdUp, macd above from then on.
calculate_macd(i, prices) ==
    [macd |-> [k \in DOMAIN prices |->
                 Int2Rat(IF i.macdUp # 0 /\ k >= i.macdUp THEN 1 ELSE 0)],
     signal |-> [k \in DOMAIN prices |-> Int2Rat(0)]]

\* _calculate_bollinger_bands: a band is mean + side * 2 * sqrt(var), kept as
\* the pair (mean, var) because the root is irrational
calculate_bollinger_bands(prices, period) ==
    LET sma == RollingMean(prices, period)
        var == RollingVar(prices, period)
    IN  [k \in DOMAIN prices |-> [mean |-> sma[k], var |-> var[k]]]

\* x > mean + 2*std, false when the band is NaN
AboveUpper(x, band) ==
    /\ notna(band.mean)
    /\ RGt(Int2Rat(x), band.mean)
    /\ LET diff == RAdd(Int2Rat(x), RMul(Int2Rat(-1), band.mean))
       IN  RGt(RMul(diff, diff), RMul(Int2Rat(4), band.var))

\* x <= mean + 2*std, false when the band is NaN
NotAboveUpper(x, band) == notna(band.mean) /\ ~AboveUpper(x, band)

\* volume over the mean of the 20 days before it
VolumeRatioPreviousMean(volume, volume_sma_20, k) ==
    IF k = 1 THEN NaN ELSE RDiv(Int2Rat(volume[k]), volume_sma_20[k - 1])

\* volume / volume_sma_20, row by row
VolumeRatio(volume, volume_sma_20, k) == RDiv(Int2Rat(volume[k]), volume_sma_20[k])

calculate_technical_indicators(i, d) ==
    IF Len(d) = 0 THEN d
    ELSE LET close == Column(d, "close")
             volume == Column(d, "volume")
             sma_20 == RollingMean(close, 20)
             sma_50 == RollingMean(close, 50)
             rsi == calculate_rsi(close, 14)
             macd_data == calculate_macd(i, close)
             bb_data == calculate_bollinger_bands(close, 20)
             volume_sma_20 == RollingMean(volume, 20)
         IN  [k \in 1..Len(d) |->
                [date |-> d[k].date, open |-> d[k].open, high |-> d[k].high,
                 low |-> d[k].low, close |-> d[k].close, volume |-> d[k].volume,
                 sma_20 |-> sma_20[k],
                 sma_50 |-> sma_50[k],
                 rsi |-> rsi[k],
                 macd |-> macd_data.macd[k],
                 macd_signal |-> macd_data.signal[k],
                 bb_upper |-> bb_data[k],
                 bb_lower |-> bb_data[k],
                 volume_sma_20 |-> volume_sma_20[k],
                 volume_ratio |-> VolumeRatio(volume, volume_sma_20, k)]]

HasColumn(d, name) == Len(d) > 0 /\ name \in DOMAIN d[1]

RECURSIVE FlatMap(_, _, _)
\* the concatenation of F(lo), ..., F(hi): a loop that appends as it goes
FlatMap(F(_), lo, hi) == IF lo > hi THEN <<>> ELSE FlatMap(F, lo, hi - 1) \o F(hi)

(***************************************************************************)
(* StockDataService: the signal detectors                                  *)
(***************************************************************************)
DefaultThreshold == Int2Rat(2)

\* a detector that waits for 30 rows, as detect_reversal_signals does
detect_volume_surge_min_rows(d, threshold) ==
    IF ~HasColumn(d, "volume_ratio") \/ Len(d) < 30 THEN <<>>
    ELSE LET one(k) ==
                 IF RGt(d[k].volume_ratio, threshold) /\ notna(d[k].volume_ratio)
                 THEN << [date |-> d[k].date, type |-> "volume_surge",
                          strength |-> PyMin(RMul(d[k].volume_ratio, Int2Rat(20)), Int2Rat(100)),
                          price |-> d[k].close, volume |-> d[k].volume] >>
                 ELSE <<>>
         IN  FlatMap(one, 1, Len(d))

detect_volume_surge(d, threshold) ==
    IF ~HasColumn(d, "volume_ratio") THEN <<>>
    ELSE LET one(k) ==
                 IF RGt(d[k].volume_ratio, threshold) /\ notna(d[k].volume_ratio)
                 THEN << [date |-> d[k].date, type |-> "volume_surge",
                          strength |-> PyMin(RMul(d[k].volume_ratio, Int2Rat(20)), Int2Rat(100)),
                          price |-> d[k].close, volume |-> d[k].volume] >>
                 ELSE <<>>
         IN  FlatMap(one, 1, Len(d))

\* volume confirmation that asks for 15 times the mean instead of 1.5 times
SmaBreakoutStrengthWide(current) ==
    IF RGt(Int2Rat(current.volume), RMul(current.volume_sma_20, Int2Rat(15)))
    THEN 60 + 20 ELSE 60

SmaBreakoutStrength(current) ==
    IF RGt(Int2Rat(current.volume), RMul(current.volume_sma_20, Rat(3, 2)))
    THEN 60 + 20 ELSE 60

MinBreakoutRows == 50

\* the scan started as soon as sma_20 has two values, at the 21st bar
detect_breakout_signals_from_21(d) ==
    IF Len(d) < 21 THEN <<>>
    ELSE LET one(k) ==
                 LET current == d[k]
                     previous == d[k - 1]
                 IN  (IF /\ RGt(Int2Rat(current.close), current.sma_20)
                         /\ RLe(Int2Rat(previous.close), previous.sma_20)
                         /\ notna(current.sma_20)
                      THEN << [date |-> current.date, type |-> "sma_breakout",
                               strength |-> Int2Rat(SmaBreakoutStrength(current)),
                               price |-> current.close, volume |-> current.volume] >>
                      ELSE <<>>)
                     \o
                     (IF /\ notna(current.bb_upper.mean)
                         /\ AboveUpper(current.close, current.bb_upper)
                         /\ NotAboveUpper(previous.close, previous.bb_upper)
                      THEN << [date |-> current.date, type |-> "bollinger_breakout",
                               strength |-> Int2Rat(70),
                               price |-> current.close, volume |-> current.volume] >>
                      ELSE <<>>)
         IN  FlatMap(one, 21, Len(d))

detect_breakout_signals(d) ==
    IF Len(d) < MinBreakoutRows THEN <<>>
    ELSE LET one(k) ==
                 LET current == d[k]
                     previous == d[k - 1]
                 IN  (IF /\ RGt(Int2Rat(current.close), current.sma_20)
                         /\ RLe(Int2Rat(previous.close), previous.sma_20)
                         /\ notna(current.sma_20)
                      THEN << [date |-> current.date, type |-> "sma_breakout",
                               strength |-> Int2Rat(SmaBreakoutStrength(current)),
                               price |-> current.close, volume |-> current.volume] >>
                      ELSE <<>>)
                     \o
                     (IF /\ notna(current.bb_upper.mean)
                         /\ AboveUpper(current.close, current.bb_upper)
                         /\ NotAboveUpper(previous.close, previous.bb_upper)
                      THEN << [date |-> current.date, type |-> "bollinger_breakout",
                               strength |-> Int2Rat(70),
                               price |-> current.close, volume |-> current.volume] >>
                      ELSE <<>>)
         IN  FlatMap(one, MinBreakoutRows + 1, Len(d))

Max(a, b) == IF a > b THEN a ELSE b

Min(a, b) == IF a < b THEN a ELSE b

\* the shape test without the bullish-candle condition and with a shadow
\* allowed to equal half the body
IsHammerAnyBody(current) ==
    LET body == Abs(current.close - current.open)
        upper_shadow == current.high - Max(current.close, current.open)
        lower_shadow == Min(current.close, current.open) - current.low
    IN  /\ lower_shadow > body * 2
        /\ 2 * upper_shadow <= body

IsHammer(current) ==
    LET body == Abs(current.close - current.open)
        upper_shadow == current.high - Max(current.close, current.open)
        lower_shadow == Min(current.close, current.open) - current.low
    IN  /\ lower_shadow > body * 2
        /\ 2 * upper_shadow < body
        /\ current.close > current.open

MinReversalRows == 30

\* the scan started one row early, at the second bar
detect_reversal_signals_from_second(d) ==
    IF Len(d) < MinReversalRows THEN <<>>
    ELSE LET one(k) ==
                 LET current == d[k]
                     prev1 == d[k - 1]
                 IN  (IF IsHammer(current)
                      THEN << [date |-> current.date, type |-> "hammer_reversal",
                               strength |-> Int2Rat(65),
                               price |-> current.close, volume |-> current.volume] >>
                      ELSE <<>>)
                     \o
                     (IF /\ notna(current.macd) /\ notna(current.macd_signal)
                         /\ RGt(current.macd, current.macd_signal)
                         /\ RLe(prev1.macd, prev1.macd_signal)
                      THEN << [date |-> current.date, type |-> "macd_golden_cross",
                               strength |-> Int2Rat(55),
                               price |-> current.close, volume |-> current.volume] >>
                      ELSE <<>>)
         IN  FlatMap(one, 2, Len(d))

detect_reversal_signals(d) ==
    IF Len(d) < MinReversalRows THEN <<>>
    ELSE LET one(k) ==
                 LET current == d[k]
                     prev1 == d[k - 1]
                 IN  (IF IsHammer(current)
                      THEN << [date |-> current.date, type |-> "hammer_reversal",
                               strength |-> Int2Rat(65),
                               price |-> current.close, volume |-> current.volume] >>
                      ELSE <<>>)
                     \o
                     (IF /\ notna(current.macd) /\ notna(current.macd_signal)
                         /\ RGt(current.macd, current.macd_signal)
                         /\ RLe(prev1.macd, prev1.macd_signal)
                      THEN << [date |-> current.date, type |-> "macd_golden_cross",
                               strength |-> Int2Rat(55),
                               price |-> current.close, volume |-> current.volume] >>
                      ELSE <<>>)
         IN  FlatMap(one, 3, Len(d))

(***************************************************************************)
(* AlphaVantageService: the signal calculators on the list of bars         *)
(***************************************************************************)
\* sum(daily_data[j]['volume'] for j in range(i-19, i)) / 20: the 19 bars
\* before bar k, divided by 20
AvgVolume(volume, k) == Rat(SumTo(volume, k - 19, k - 1), 20)

calculate_volume_surge(daily_data, threshold) ==
    IF Len(daily_data) < 20 THEN <<>>
    ELSE LET volume == Column(daily_data, "volume")
             one(k) ==
                 LET current_volume == daily_data[k].volume
                     avg_volume == AvgVolume(volume, k)
                     volume_ratio == RDiv(Int2Rat(current_volume), avg_volume)
                 IN  IF RGt(avg_volume, Int2Rat(0)) /\ RGe(volume_ratio, threshold)
                     THEN << [date |-> daily_data[k].date, type |-> "volume_surge",
                              strength |-> PyMin(RMul(volume_ratio, Int2Rat(20)), Int2Rat(100)),
                              price |-> daily_data[k].close, volume |-> current_volume,
                              volume_ratio |-> volume_ratio] >>
                     ELSE <<>>
         IN  FlatMap(one, 20, Len(daily_data))

\* a cross that needs the previous close strictly below its average
SmaCrossStrict(prev_price, prev_sma, current_price, current_sma) ==
    RLt(Int2Rat(prev_price), prev_sma) /\ RGt(Int2Rat(current_price), current_sma)

\* prev_price <= prev_sma and current_price > current_sma
SmaCross(prev_price, prev_sma, current_price, current_sma) ==
    RLe(Int2Rat(prev_price), prev_sma) /\ RGt(Int2Rat(current_price), current_sma)

calculate_sma_signals(daily_data, period) ==
    IF Len(daily_data) < period + 1 THEN <<>>
    ELSE LET close == Column(daily_data, "close")
             one(k) ==
                 LET current_price == close[k]
                     prev_price == close[k - 1]
                     current_sma == Rat(SumTo(close, k - period + 1, k), period)
                     prev_sma == Rat(SumTo(close, k - period, k - 1), period)
                 IN  IF SmaCross(prev_price, prev_sma, current_price, current_sma)
                     THEN << [date |-> daily_data[k].date, type |-> "sma_breakout",
                              strength |-> Int2Rat(60),
                              price |-> current_price, volume |-> daily_data[k].volume,
                              sma_value |-> current_sma] >>
                     ELSE <<>>
         IN  FlatMap(one, period + 1, Len(daily_data))

(***************************************************************************)
(* The scorer: analyze_stock of both services                              *)
(***************************************************************************)
ScoreWindowDays == 30

MaxSignalsShown == 10

\* the window without its last day
RecentSignalsStrict(all_signals, now) ==
    Filter(all_signals,
           [k \in 1..Len(all_signals) |-> now - all_signals[k].date < ScoreWindowDays],
           Len(all_signals))

\* [s for s in all_signals if (now - s['date']).days <= 30]
RecentSignals(all_signals, now) ==
    Filter(all_signals,
           [k \in 1..Len(all_signals) |-> now - all_signals[k].date <= ScoreWindowDays],
           Len(all_signals))

\* sum(s['strength'] for s in recent) / len(recent) if recent else 0
TotalScore(recent_signals) ==
    IF Len(recent_signals) > 0
    THEN RDiv(RSum([k \in 1..Len(recent_signals) |-> recent_signals[k].strength],
                   Len(recent_signals)),
              Int2Rat(Len(recent_signals)))
    ELSE Int2Rat(0)

\* all_signals[-10:]
ShownSignals(all_signals) == PyLast(all_signals, MaxSignalsShown)

\* what a fetch returned: None, or a (possibly empty) sequence of rows
None == [none |-> TRUE, rows |-> <<>>]

Some(rows) == [none |-> FALSE, rows |-> rows]

\* the call ended in an exception
Raised == [raised |-> TRUE]

\* AlphaVantageService.analyze_stock; quote and daily_result are what
\* get_stock_quote and get_daily_data returned; float() of a change_percent
\* that is not a number raises ValueError
AV_analyze_stock(quote, daily_result, now) ==
    IF quote = "none" THEN [error |-> "quote"]
    ELSE IF daily_result.none \/ Len(daily_result.rows) = 0 THEN [error |-> "history"]
    ELSE IF quote = "malformed" THEN Raised
    ELSE LET daily == daily_result.rows
             volume_signals == calculate_volume_surge(daily, DefaultThreshold)
             sma_signals == calculate_sma_signals(daily, 20)
             all_signals == volume_signals \o sma_signals
             recent_signals == RecentSignals(all_signals, now)
         IN  [signals |-> ShownSignals(all_signals),
              score |-> Round2(TotalScore(recent_signals)),
              technical_indicators |->
                  [volume_ratio |-> IF Len(volume_signals) > 0
                                    THEN volume_signals[Len(volume_signals)].volume_ratio
                                    ELSE Int2Rat(1)]]

\* StockDataService.analyze_stock; hist is what get_historical_data returned
SDS_analyze_stock(i, hist, now) ==
    IF hist.none \/ Len(hist.rows) = 0 THEN [error |-> "history"]
    ELSE LET d == calculate_technical_indicators(i, hist.rows)
             volume_signals == detect_volume_surge(d, DefaultThreshold)
             breakout_signals == detect_breakout_signals(d)
             reversal_signals == detect_reversal_signals(d)
             all_signals == volume_signals \o breakout_signals \o reversal_signals
             recent_signals == RecentSignals(all_signals, now)
             latest == d[Len(d)]
         IN  [signals |-> ShownSignals(all_signals),
              score |-> Round2(TotalScore(recent_signals)),
              technical_indicators |->
                  [rsi |-> latest.rsi, macd |-> latest.macd, sma_20 |-> latest.sma_20,
                   sma_50 |-> latest.sma_50, volume_ratio |-> latest.volume_ratio]]

(***************************************************************************)
(* Specification Spec: the calculators, detectors and scorers applied to   *)
(* one provider answer                                                     *)
(***************************************************************************)
NoResult == [none |-> TRUE]

\* no call is in progress: the last returned value has been consumed
Idle == [name |-> "idle"]

NoWorld == [kind |-> "none"]

NoRequest == [handler |-> "none"]

NoResponse == [status |-> 0]

batch == <<world, req, resp>>

pipeline == <<inp, data, signals, result, op>>

limiter == <<clock, last_request_time, thr, sent, raised>>

database == <<signals_table, session, stocks_table, daily_data_table>>

\* self.request_interval = 12
request_interval == 12

\* time.time() when the service is constructed: any time of the epoch is at
\* least request_interval after the initial last_request_time = 0
StartTime == request_interval

\* the service right after __init__, shared by the given threads
LimiterInit(threads) ==
    /\ clock = StartTime
    /\ last_request_time = 0
    /\ thr = [t \in threads |-> [pc |-> "idle", wake |-> 0, sent_at |-> 0]]
    /\ sent = <<>>
    /\ raised = FALSE

\* an empty table `signals` and one fresh db.session per thread
\* the table `stocks`: the id of each stored symbol
StocksTable == [AAPL |-> 1]

DatabaseInit(threads) ==
    /\ signals_table = <<>>
    /\ stocks_table = StocksTable
    /\ daily_data_table = <<>>
    /\ session = [t \in threads |->
                    [pc |-> "idle", todo |-> <<>>, pending |-> <<>>, calls |-> 0]]

\* the days after the last bar at which analyze_stock reads the clock
Lags == {0, 10, 11}

Init ==
    /\ inp \in Inputs
    /\ data = Bars(inp)
    /\ signals = <<>>
    /\ result = NoResult
    /\ op = Idle
    /\ world = NoWorld /\ req = NoRequest /\ resp = NoResponse
    /\ LimiterInit({})
    /\ DatabaseInit({})

CalcIndicators ==
    /\ op = Idle
    /\ data' = calculate_technical_indicators(inp, data)
    /\ op' = [name |-> "calculate_technical_indicators"]
    /\ signals' = <<>>
    /\ result' = NoResult
    /\ UNCHANGED <<inp, batch, limiter, database>>

DetectVolumeSurge ==
    /\ op = Idle
    /\ signals' = detect_volume_surge(data, DefaultThreshold)
    /\ op' = [name |-> "detect_volume_surge"]
    /\ result' = NoResult
    /\ UNCHANGED <<inp, data, batch, limiter, database>>

\* the breakout and reversal detectors read columns the calculator adds
DetectBreakout ==
    /\ op = Idle
    /\ HasColumn(data, "sma_20")
    /\ signals' = detect_breakout_signals(data)
    /\ op' = [name |-> "detect_breakout_signals"]
    /\ result' = NoResult
    /\ UNCHANGED <<inp, data, batch, limiter, database>>

DetectReversal ==
    /\ op = Idle
    /\ HasColumn(data, "macd")
    /\ signals' = detect_reversal_signals(data)
    /\ op' = [name |-> "detect_reversal_signals"]
    /\ result' = NoResult
    /\ UNCHANGED <<inp, data, batch, limiter, database>>

CalcVolumeSurge ==
    /\ op = Idle
    /\ signals' = calculate_volume_surge(Bars(inp), DefaultThreshold)
    /\ op' = [name |-> "calculate_volume_surge"]
    /\ result' = NoResult
    /\ UNCHANGED <<inp, data, batch, limiter, database>>

CalcSmaSignals ==
    /\ op = Idle
    /\ signals' = calculate_sma_signals(Bars(inp), 20)
    /\ op' = [name |-> "calculate_sma_signals"]
    /\ result' = NoResult
    /\ UNCHANGED <<inp, data, batch, limiter, database>>

\* what the provider answers to the two fetches of AlphaVantageService.analyze_stock
AVFetches ==
    { [quote |-> "none", daily |-> None], [quote |-> "ok", daily |-> None],
      [quote |-> "ok", daily |-> Some(<<>>)] }

AVAnalyzeFailed ==
    /\ op = Idle
    /\ \E f \in AVFetches :
        /\ result' = AV_analyze_stock(f.quote, f.daily, inp.len)
        /\ op' = [name |-> "AV.analyze_stock", now |-> inp.len, fetched |-> FALSE]
        /\ signals' = <<>>
        /\ UNCHANGED <<inp, data, batch, limiter, database>>

AVAnalyze ==
    /\ op = Idle
    /\ \E lag \in Lags :
        /\ result' = AV_analyze_stock("ok", Some(Bars(inp)), inp.len + lag)
        /\ op' = [name |-> "AV.analyze_stock", now |-> inp.len + lag, fetched |-> TRUE]
        /\ signals' = <<>>
        /\ UNCHANGED <<inp, data, batch, limiter, database>>

SDSAnalyzeFailed ==
    /\ op = Idle
    /\ \E hist \in {None, Some(<<>>)} :
        /\ result' = SDS_analyze_stock(inp, hist, inp.len)
        /\ op' = [name |-> "SDS.analyze_stock", now |-> inp.len, fetched |-> FALSE]
        /\ signals' = <<>>
        /\ UNCHANGED <<inp, data, batch, limiter, database>>

SDSAnalyze ==
    /\ op = Idle
    /\ \E lag \in Lags :
        /\ result' = SDS_analyze_stock(inp, Some(Bars(inp)), inp.len + lag)
        /\ op' = [name |-> "SDS.analyze_stock", now |-> inp.len + lag, fetched |-> TRUE]
        /\ signals' = <<>>
        /\ UNCHANGED <<inp, data, batch, limiter, database>>

\* the caller takes the returned value
Return ==
    /\ op # Idle
    /\ op' = Idle
    /\ signals' = <<>>
    /\ result' = NoResult
    /\ UNCHANGED <<inp, data, batch, limiter, database>>

Next ==
    \/ CalcIndicators
    \/ DetectVolumeSurge
    \/ DetectBreakout
    \/ DetectReversal
    \/ CalcVolumeSurge
    \/ CalcSmaSignals
    \/ AVAnalyzeFailed
    \/ AVAnalyze
    \/ SDSAnalyzeFailed
    \/ SDSAnalyze
    \/ Return

Spec == Init /\ [][Next]_vars

(***************************************************************************)
(* Claims about the detectors and the scorer, checked under Spec           *)
(***************************************************************************)
SignalsOfType(sigs, t) == { k \in 1..Len(sigs) : sigs[k].type = t }

\* the volume is flat except for a 3x spike on day 40 of 60
C1Case == inp.len = 60 /\ inp.vday = 40 /\ inp.vmult = 3

\* the indicator calculation has run and detect_volume_surge has just returned
RanDetectVolumeSurge == op.name = "detect_volume_surge" /\ HasColumn(data, "volume_ratio")

OneVolumeSurgeOnDay40(strength) ==
    /\ Len(signals) = 1
    /\ signals[1].type = "volume_surge"
    /\ signals[1].date = 40
    /\ REq(signals[1].strength, strength)

C2Case == inp.len = 25 /\ inp.shape \in {"step", "spike"} /\ inp.gday = 21 /\ inp.gap > 0

OneSmaBreakoutOnDay21 ==
    /\ Cardinality(SignalsOfType(signals, "sma_breakout")) = 1
    /\ \A k \in SignalsOfType(signals, "sma_breakout") : signals[k].date = 21

\* C2 as stated: for a flat 25-bar close with one upward gap on day 21 the SMA
\* breakout rule, in either implementation, emits exactly one sma_breakout
\* signal, dated day 21.
C2_AsStated ==
    (C2Case /\ op.name \in {"detect_breakout_signals", "calculate_sma_signals"})
        => OneSmaBreakoutOnDay21

\* C2 (amended): calculate_sma_signals emits exactly one sma_breakout signal,
\* dated day 21; detect_breakout_signals emits nothing for a 25-bar sequence,
\* because it returns early below 50 rows.
C2_SmaBreakout ==
    /\ (C2Case /\ op.name = "calculate_sma_signals") => OneSmaBreakoutOnDay21
    /\ (C2Case /\ op.name = "detect_breakout_signals") => signals = <<>>

C2_Witness ==
    /\ C2Case /\ op.name = "calculate_sma_signals"
    /\ Len(signals) = 1 /\ signals[1].date = 21

\* every signal the detectors of the service that ran last find in the answer
DetectedSignals ==
    IF op.name = "AV.analyze_stock"
    THEN calculate_volume_surge(Bars(inp), DefaultThreshold)
         \o calculate_sma_signals(Bars(inp), 20)
    ELSE LET d == calculate_technical_indicators(inp, Bars(inp))
         IN  detect_volume_surge(d, DefaultThreshold) \o detect_breakout_signals(d)
             \o detect_reversal_signals(d)

Analyzed == op.name \in {"AV.analyze_stock", "SDS.analyze_stock"} /\ op.fetched

RECURSIVE StrengthSum(_, _)
StrengthSum(sigs, W) ==
    IF W = {} THEN Int2Rat(0)
    ELSE LET k == CHOOSE x \in W : TRUE
         IN  RAdd(sigs[k].strength, StrengthSum(sigs, W \ {k}))

RAbs(x) == [n |-> Abs(x.n), d |-> x.d]

\* s is x rounded to two decimals: a whole number of hundredths within half a
\* hundredth of x
IsRounded2(s, x) ==
    /\ s.d # 0 /\ 100 % s.d = 0
    /\ RLe(RAbs(RAdd(s, RMul(Int2Rat(-1), x))), Rat(1, 200))

\* C5: the score of analyze_stock is the mean strength of exactly the detected
\* signals dated within 30 days of the clock (now - date <= 30, inclusive),
\* rounded to two decimals; 0 when no signal is in the window; the (rounded)
\* strength of the signal when exactly one is.
C5_Score ==
    Analyzed =>
        LET all == DetectedSignals
            W == { k \in 1..Len(all) : op.now - all[k].date <= 30 }
        IN  /\ W = {} => result.score = Int2Rat(0)
            /\ W # {} => IsRounded2(result.score,
                                    RDiv(StrengthSum(all, W), Int2Rat(Cardinality(W))))
            /\ \A k \in W : W = {k} => IsRounded2(result.score, all[k].strength)

\* a signal exactly 30 days old is the only one in the window, and it is scored
C5_Witness ==
    /\ Analyzed
    /\ LET all == DetectedSignals
           W == { k \in 1..Len(all) : op.now - all[k].date <= 30 }
       IN  /\ Cardinality(W) = 1 /\ Len(all) > 1
           /\ \E k \in W : op.now - all[k].date = 30
           /\ RGt(result.score, Int2Rat(0))

\* C6 as stated: result.signals has at most 10 entries and they are the 10 most
\* recent detected signals: every detected signal left out is dated no later
\* than every signal kept.
C6_AsStated ==
    Analyzed =>
        LET all == DetectedSignals
            kept == { result.signals[k] : k \in 1..Len(result.signals) }
            left_out == { all[k] : k \in 1..Len(all) } \ kept
        IN  /\ Len(result.signals) <= 10
            /\ \A o \in left_out, k \in kept : o.date <= k.date

\* C13 as stated: calculate_technical_indicators leaves the frame the caller
\* passed in as it was (same columns, same values), and what it returns has the
\* same length and the same dates.
C13_AsStated ==
    [][CalcIndicators =>
          /\ data' = data
          /\ Len(data') = Len(data)
          /\ \A k \in 1..Len(data) : data'[k].date = data[k].date]_vars

\* the indicator calculation has just returned
RanCalcIndicators == op.name = "calculate_technical_indicators"

\* the sum of the rises (side = 1) or of the falls (side = -1) of the close
\* over the 14 rows ending at row k
MoveSum(side, k) ==
    LET c == [j \in 1..inp.len |-> Close(inp, j)]
        move == [j \in 1..inp.len |->
                    IF j > 1 /\ side * (c[j] - c[j - 1]) > 0
                    THEN side * (c[j] - c[j - 1]) ELSE 0]
    IN  SumTo(move, k - 13, k)

\* C14: rsi, where it is a number, is finite and lies in [0, 100]; on a row
\* whose trailing 14 rows hold a rise and no fall it is exactly 100; on a row
\* whose trailing 14 rows hold no rise and no fall it is undefined (NaN).
C14_RsiRange ==
    RanCalcIndicators =>
        \A k \in 1..Len(data) :
            /\ notna(data[k].rsi) =>
                  /\ data[k].rsi.d > 0
                  /\ RLe(Int2Rat(0), data[k].rsi) /\ RLe(data[k].rsi, Int2Rat(100))
            /\ (k >= 14 /\ MoveSum(-1, k) = 0 /\ MoveSum(1, k) > 0)
                  => data[k].rsi = Int2Rat(100)
            /\ (k >= 14 /\ MoveSum(-1, k) = 0 /\ MoveSum(1, k) = 0)
                  => IsNaN(data[k].rsi)

\* after a step up on day 21: rsi is 100 on day 21 and undefined on day 20
C14_Witness ==
    /\ RanCalcIndicators
    /\ inp.shape = "step" /\ inp.gday = 21
    /\ data[21].rsi = Int2Rat(100)
    /\ IsNaN(data[20].rsi)

\* the signal types that need a 20-day window
WindowTypes == {"volume_surge", "sma_breakout", "bollinger_breakout"}

\* C15: for a sequence of fewer than 20 bars sma_20, bb_upper, bb_lower and
\* volume_sma_20 are undefined (NaN) on every row, and no detector, calculator
\* or analyze_stock emits a volume_surge, sma_breakout or bollinger_breakout.
C15_ShortSequences ==
    inp.len < 20 =>
        /\ RanCalcIndicators =>
              \A k \in 1..Len(data) :
                  /\ IsNaN(data[k].sma_20)
                  /\ IsNaN(data[k].bb_upper.mean) /\ IsNaN(data[k].bb_upper.var)
                  /\ IsNaN(data[k].bb_lower.mean) /\ IsNaN(data[k].bb_lower.var)
                  /\ IsNaN(data[k].volume_sma_20)
        /\ \A k \in 1..Len(signals) : signals[k].type \notin WindowTypes
        /\ Analyzed => \A k \in 1..Len(result.signals) :
                          result.signals[k].type \notin WindowTypes

\* 19 bars with a threefold volume on the last day and a step on day 10: the
\* annotated frame went through detect_volume_surge and nothing was emitted
C15_Witness ==
    /\ inp.len = 19 /\ inp.vday = 19 /\ inp.shape = "step" /\ inp.gday = 10
    /\ RanDetectVolumeSurge
    /\ signals = <<>>

\* C16: every hammer_reversal signal of detect_reversal_signals is dated on a
\* bar whose body is not zero (open # close): a bar with open = close, whatever
\* its shadows and its neighbours, never produces one.
C16_ZeroBody ==
    op.name = "detect_reversal_signals" =>
        \A k \in 1..Len(signals) :
            signals[k].type = "hammer_reversal"
                => data[signals[k].date].open # data[signals[k].date].close

\* a doji with a long lower shadow on day 30 (and 29 or more plain bars with
\* open = close = high = low) went through the detector without a hammer signal
C16_Witness ==
    /\ op.name = "detect_reversal_signals"
    /\ inp.hday = 30 /\ inp.hbody = 0
    /\ data[30].open = data[30].close /\ data[30].low < data[30].close
    /\ SignalsOfType(signals, "hammer_reversal") = {}

\* C17: detect_reversal_signals never emits a macd_golden_cross dated on the
\* first bar of the sequence; its scan starts at index 2, so every
\* macd_golden_cross is dated on the third bar or later.
C17_NoCrossOnFirstBar ==
    op.name = "detect_reversal_signals" =>
        \A k \in 1..Len(signals) :
            signals[k].type = "macd_golden_cross"
                => /\ signals[k].date # data[1].date
                   /\ signals[k].date >= data[3].date

\* macd rises above macd_signal on the third bar, the earliest bar the scan
\* reads, and the cross is reported there
C17_Witness ==
    /\ op.name = "detect_reversal_signals"
    /\ inp.macdUp = 3
    /\ \E k \in 1..Len(signals) :
          signals[k].type = "macd_golden_cross" /\ signals[k].date = data[3].date

\* volume[k] over the mean of the volume of the 20 bars ending at bar k
\* inclusive; undefined before bar 20 or when the mean is 0
TrailingRatio(k) ==
    LET volume == [j \in 1..inp.len |-> Volume(inp, j)]
    IN  IF k < 20 \/ SumTo(volume, k - 19, k) = 0 THEN NaN
        ELSE RDiv(Int2Rat(volume[k]), Rat(SumTo(volume, k - 19, k), 20))

\* C18 as stated: volume-surge detection, in detect_volume_surge and in
\* calculate_volume_surge, emits a volume_surge on bar k if and only if the
\* trailing ratio of bar k is defined and >= 2.0 (the default threshold), with
\* strength min(ratio * 20, 100).
C18_AsStated ==
    (RanDetectVolumeSurge \/ op.name = "calculate_volume_surge") =>
        /\ { signals[k].date : k \in 1..Len(signals) }
              = { k \in 1..inp.len :
                    notna(TrailingRatio(k)) /\ RGe(TrailingRatio(k), Int2Rat(2)) }
        /\ \A k \in 1..Len(signals) :
              /\ signals[k].type = "volume_surge"
              /\ signals[k].strength
                    = PyMin(RMul(TrailingRatio(signals[k].date), Int2Rat(20)), Int2Rat(100))

\* volume[k] > 1.5 * the mean of the volume of the 20 bars ending at bar k
VolumeConfirmed(k) ==
    LET volume == [j \in 1..inp.len |-> Volume(inp, j)]
    IN  k >= 20 /\ 40 * volume[k] > 3 * SumTo(volume, k - 19, k)

\* the strength of every sma_breakout in signals is 80 with volume
\* confirmation on its bar and 60 without
ConfirmedStrengths ==
    \A k \in SignalsOfType(signals, "sma_breakout") :
        signals[k].strength = Int2Rat(IF VolumeConfirmed(signals[k].date) THEN 80 ELSE 60)

\* C19 as stated: in either implementation of the SMA breakout rule every
\* sma_breakout has strength 60, or 80 exactly when volume[i] > 1.5 *
\* volumeSma20[i] on its bar.
C19_AsStated ==
    op.name \in {"detect_breakout_signals", "calculate_sma_signals"} => ConfirmedStrengths

\* C19 (amended): every sma_breakout of detect_breakout_signals has strength
\* 60, or 80 exactly when volume[i] > 1.5 * volume_sma_20[i] on its bar; every
\* sma_breakout of calculate_sma_signals has strength 60, with or without
\* volume confirmation.
C19_SmaStrength ==
    /\ op.name = "detect_breakout_signals" => ConfirmedStrengths
    /\ op.name = "calculate_sma_signals" =>
          \A k \in SignalsOfType(signals, "sma_breakout") :
              signals[k].strength = Int2Rat(60)

\* detect_breakout_signals reported a breakout of strength 80 on a bar with
\* volume confirmation and one of strength 60 on a bar without
C19_Witness ==
    /\ op.name = "detect_breakout_signals"
    /\ \E k \in SignalsOfType(signals, "sma_breakout") :
          VolumeConfirmed(signals[k].date) /\ signals[k].strength = Int2Rat(80)
    /\ \E k \in SignalsOfType(signals, "sma_breakout") :
          ~ VolumeConfirmed(signals[k].date) /\ signals[k].strength = Int2Rat(60)

BreakoutTypes == {"sma_breakout", "bollinger_breakout"}

\* C20 as stated: for a sequence of fewer than 50 bars no implementation of
\* the breakout rules yields an sma_breakout or a bollinger_breakout.
C20_AsStated ==
    (inp.len < 50 /\ op.name \in {"detect_breakout_signals", "calculate_sma_signals"})
        => \A k \in 1..Len(signals) : signals[k].type \notin BreakoutTypes

\* C20 (amended): detect_breakout_signals yields no signal for a sequence of
\* fewer than 50 bars, and StockDataService.analyze_stock reports no breakout
\* for it; calculate_sma_signals, whose window is its period of 20, yields no
\* signal for fewer than 21 bars.
C20_BreakoutHistory ==
    /\ (inp.len < 50 /\ op.name = "detect_breakout_signals") => signals = <<>>
    /\ (inp.len < 50 /\ op.name = "SDS.analyze_stock" /\ op.fetched)
          => \A k \in 1..Len(result.signals) : result.signals[k].type \notin BreakoutTypes
    /\ (inp.len < 21 /\ op.name = "calculate_sma_signals") => signals = <<>>

\* 25 bars whose close steps over its 20-day mean on day 21: the annotated
\* frame went through detect_breakout_signals and nothing was emitted
C20_Witness ==
    /\ inp.len = 25 /\ inp.shape = "step" /\ inp.gday = 21
    /\ op.name = "detect_breakout_signals"
    /\ RGt(Int2Rat(data[21].close), data[21].sma_20)
    /\ RLe(Int2Rat(data[20].close), data[20].sma_20)
    /\ signals = <<>>

\* bar k of the answer passes the shape test: lowerShadow > 2 * body,
\* upperShadow < 0.5 * body and close > open
HammerShape(k) ==
    LET b == Bar(inp, k)
        body == Abs(b.close - b.open)
        upperShadow == b.high - Max(b.close, b.open)
        lowerShadow == Min(b.close, b.open) - b.low
    IN  lowerShadow > 2 * body /\ 2 * upperShadow < body /\ b.close > b.open

\* the dates of the hammer_reversal signals, each of strength 65, are exactly days
HammersOn(days) ==
    /\ { signals[k].date : k \in SignalsOfType(signals, "hammer_reversal") } = days
    /\ \A k \in SignalsOfType(signals, "hammer_reversal") :
          signals[k].strength = Int2Rat(65)
    /\ \A j, k \in SignalsOfType(signals, "hammer_reversal") :
          signals[j].date = signals[k].date => j = k

\* C21 as stated: detect_reversal_signals emits a hammer_reversal (strength 65)
\* on bar i if and only if bar i passes the shape test, for every index of
\* every sequence, whatever its length.
C21_AsStated ==
    op.name = "detect_reversal_signals" =>
        HammersOn({ k \in 1..inp.len : HammerShape(k) })

\* C21 (amended): for a sequence of at least 30 bars detect_reversal_signals
\* emits a hammer_reversal (strength 65) on bar i if and only if i >= 2 (the
\* third bar or later) and bar i passes the shape test, independently of the
\* other bars; for a sequence of fewer than 30 bars it emits none.
C21_HammerRule ==
    op.name = "detect_reversal_signals" =>
        HammersOn(IF inp.len >= 30 THEN { k \in 3..inp.len : HammerShape(k) } ELSE {})

\* a hammer on the third bar of at least 30 is reported
C21_Witness ==
    /\ op.name = "detect_reversal_signals"
    /\ inp.len >= 30 /\ inp.hday = 3 /\ inp.hbody = 1
    /\ \E k \in 1..Len(signals) :
          signals[k].type = "hammer_reversal" /\ signals[k].date = 3

\* C22 as stated: rsi is undefined (NaN) on the first 14 bars (indices 0..13,
\* rows 1..14) of every sequence.
C22_AsStated ==
    RanCalcIndicators =>
        \A k \in 1..Len(data) : k <= 14 => IsNaN(data[k].rsi)

\* C23 as stated: macd and macd_signal are undefined (NaN) on every bar with
\* fewer than 26 bars of history (rows 1..25), and no macd_golden_cross is
\* dated before the 26th bar.
C23_AsStated ==
    /\ RanCalcIndicators =>
          \A k \in 1..Len(data) :
              k < 26 => IsNaN(data[k].macd) /\ IsNaN(data[k].macd_signal)
    /\ op.name = "detect_reversal_signals" =>
          \A k \in SignalsOfType(signals, "macd_golden_cross") : signals[k].date >= 26

\* the volumes of the 20 bars ending at bar k add up to zero
ZeroVolumeWindow(k) ==
    LET volume == [j \in 1..inp.len |-> Volume(inp, j)]
    IN  k >= 20 /\ SumTo(volume, k - 19, k) = 0

\* C24: volume_ratio is undefined (NaN) on every row whose volume_sma_20 is
\* undefined or zero, and is infinite on no row; neither detect_volume_surge
\* nor calculate_volume_surge emits a volume_surge on a bar whose trailing
\* 20 bars have no volume.
C24_ZeroVolume ==
    /\ RanCalcIndicators =>
          \A k \in 1..Len(data) :
              /\ (IsNaN(data[k].volume_sma_20) \/ data[k].volume_sma_20 = Int2Rat(0))
                    => IsNaN(data[k].volume_ratio)
              /\ ZeroVolumeWindow(k) => data[k].volume_sma_20 = Int2Rat(0)
              /\ ~(data[k].volume_ratio.d = 0 /\ data[k].volume_ratio.n # 0)
    /\ op.name \in {"detect_volume_surge", "calculate_volume_surge"} =>
          \A k \in SignalsOfType(signals, "volume_surge") :
              ~ZeroVolumeWindow(signals[k].date)

\* no volume before day 40: the ratio is undefined on day 39, whose window has
\* no volume, and a number on day 40
C24_Witness ==
    /\ RanCalcIndicators
    /\ inp.vbase = 0 /\ inp.vday = 40
    /\ ZeroVolumeWindow(39)
    /\ data[39].volume_sma_20 = Int2Rat(0) /\ IsNaN(data[39].volume_ratio)
    /\ notna(data[40].volume_ratio)

(***************************************************************************)
(* The batch operations: get_potential_stocks of the three services and    *)
(* the two batch routes                                                    *)
(***************************************************************************)
\* the head of popular_stocks['US'] (6 of its 16 symbols) and of
\* popular_stocks['HK'] (1 of its 12)
PopularUS == <<"AAPL", "MSFT", "GOOGL", "AMZN", "TSLA", "META">>

PopularHK == <<"0700.HK">>

popular_stocks(market) ==
    IF market = "US" THEN PopularUS ELSE IF market = "HK" THEN PopularHK ELSE <<>>

Range(s) == { s[k] : k \in 1..Len(s) }

Symbols == Range(PopularUS) \cup Range(PopularHK)

Markets == {"US", "HK", "XX"}

\* the symbols whose provider answer can be a failure
FaultyPrefix == 2

MaxLimit == 6

Limits == {-1, 0, 2, MaxLimit}

\* What the provider answers for one symbol: nothing, an answer that makes
\* analyze_stock raise (a change_percent that is no number for Alpha Vantage, a
\* frame without its close column for yfinance), or 60 bars that are flat, end
\* in a volume spike, or step over their 20-day mean
Answers == {"none", "malformed", "flat", "spike", "step"}

AnswerInput(a) ==
    IF a = "spike" THEN [Base EXCEPT !.vday = 60, !.vmult = MaxMult]
    ELSE IF a = "step" THEN [Base EXCEPT !.shape = "step", !.gday = 55, !.gap = 1, !.macdUp = 55]
    ELSE Base

\* the clock of the batch: the day of the last bar
Now == Base.len

\* what each service's analyze_stock returns on each answer
Analysis ==
    [a \in Answers |->
        [AV |-> AV_analyze_stock(IF a \in {"none", "malformed"} THEN a ELSE "ok",
                                 IF a = "none" THEN None ELSE Some(Bars(AnswerInput(a))),
                                 Now),
         SDS |-> IF a = "malformed" THEN Raised
                 ELSE SDS_analyze_stock(AnswerInput(a),
                                        IF a = "none" THEN None ELSE Some(Bars(AnswerInput(a))),
                                        Now)]]

\* random.uniform(50, 90), five times per symbol
MockStrengths == { <<50, 50, 50, 50, 50>>, <<90, 90, 90, 90, 90>>, <<50, 60, 70, 80, 90>> }

\* MockStockDataService.analyze_stock for a listed symbol
Mock_analyze_stock(strengths) ==
    LET sigs == [k \in 1..Len(strengths) |-> [strength |-> Int2Rat(strengths[k])]]
    IN  [signals |-> sigs, score |-> Round2(TotalScore(sigs))]

\* for one symbol: the provider's answer and whether get_stock_info finds it
Outcomes == { [a |-> x, info |-> TRUE] : x \in Answers } \cup { [a |-> "spike", info |-> FALSE] }

Faulty == { PopularUS[k] : k \in 1..FaultyPrefix }

Sound == Range(PopularUS) \ Faulty

\* the provider worlds; the provider has nothing for a symbol it does not list
ProviderWorlds ==
    { [kind |-> "provider",
       out |-> [s \in Symbols |-> IF s \in Faulty THEN f[s]
                                  ELSE IF s \in Sound THEN g[s] ELSE h[s]],
       unlisted |-> [a |-> "none", info |-> FALSE],
       analysis |-> Analysis] :
        f \in [Faulty -> Outcomes],
        g \in [Sound -> { o \in Outcomes : o.a \in {"spike", "step"} /\ o.info }],
        h \in [Range(PopularHK) -> { o \in Outcomes : o.a \in {"none", "spike"} /\ o.info }] }

RandomWorlds ==
    { [kind |-> "random",
       out |-> [s \in Symbols |-> IF s \in Range(PopularUS) THEN f[s]
                                  ELSE <<50, 50, 50, 50, 50>>]] :
        f \in [Range(PopularUS) -> MockStrengths] }

MinScore == 30

IsError(analysis) == "error" \in DOMAIN analysis

\* no score test at all
QualifiesAny(analysis) == ~ IsError(analysis)

\* 'error' not in analysis and analysis['score'] > 30
Qualifies(analysis) == ~ IsError(analysis) /\ RGt(analysis.score, Int2Rat(MinScore))

Entry(symbol, analysis) == [symbol |-> symbol, score |-> analysis.score]

\* an ascending sort read backwards: the later of two equal entries comes first
SortedPositionReversed(results, i) ==
    1 + Cardinality({ j \in 1..Len(results) :
                        \/ RGt(results[j].score, results[i].score)
                        \/ (j > i /\ REq(results[j].score, results[i].score)) })

\* where list.sort(key=score, reverse=True) puts entry i: after the entries of
\* a higher score and, the sort being stable, after the earlier entries of its
\* own score
SortedPosition(results, i) ==
    1 + Cardinality({ j \in 1..Len(results) :
                        \/ RGt(results[j].score, results[i].score)
                        \/ (j < i /\ REq(results[j].score, results[i].score)) })

\* results.sort(key=lambda x: x['score'], reverse=True)
SortByScoreDesc(results) ==
    [r \in 1..Len(results) |->
        results[CHOOSE i \in 1..Len(results) : SortedPosition(results, i) = r]]

\* the sort and the slice results[:limit] that end get_potential_stocks
Ranked(considered, results, limit) ==
    [considered |-> considered, collected |-> results,
     returned |-> PyHead(SortByScoreDesc(results), limit)]

\* body at the value of e, which is evaluated once
Let(body(_), e) == CHOOSE r \in { body(v) : v \in {e} } : TRUE

\* StockDataService.get_potential_stocks
SDS_get_potential_stocks(w, market, limit) ==
    LET stocks == popular_stocks(market)
        considered == PyHead(stocks, 20)
        one(k) ==
            LET symbol == considered[k]
                analysis == w.analysis[w.out[symbol].a].SDS
            IN  IF analysis = Raised THEN <<>>
                ELSE IF Qualifies(analysis) /\ w.out[symbol].info
                THEN <<Entry(symbol, analysis)>>
                ELSE <<>>
    IN  Let(LAMBDA results : Ranked(considered, results, limit),
            FlatMap(one, 1, Len(considered)))

\* a ranker that analyses stocks[:limit], without the ceiling of 5 requests
AV_get_potential_stocks_uncapped(w, market, limit) ==
    LET stocks == popular_stocks(market)
        considered == PyHead(stocks, limit)
        one(k) ==
            LET symbol == considered[k]
                analysis == w.analysis[w.out[symbol].a].AV
            IN  IF analysis = Raised THEN <<>>
                ELSE IF Qualifies(analysis) THEN <<Entry(symbol, analysis)>>
                ELSE <<>>
    IN  Let(LAMBDA results : Ranked(considered, results, limit),
            FlatMap(one, 1, Len(considered)))

\* AlphaVantageService.get_potential_stocks
AV_get_potential_stocks(w, market, limit) ==
    LET stocks == popular_stocks(market)
        considered == PyHead(stocks, IF limit < 5 THEN limit ELSE 5)
        one(k) ==
            LET symbol == considered[k]
                analysis == w.analysis[w.out[symbol].a].AV
            IN  IF analysis = Raised THEN <<>>
                ELSE IF Qualifies(analysis) THEN <<Entry(symbol, analysis)>>
                ELSE <<>>
    IN  Let(LAMBDA results : Ranked(considered, results, limit),
            FlatMap(one, 1, Len(considered)))

\* MockStockDataService.get_potential_stocks: every listed symbol has its info,
\* so analyze_stock never returns an error
Mock_get_potential_stocks(w, market, limit) ==
    LET stocks == popular_stocks(market)
        considered == PyHead(stocks, limit)
        one(k) ==
            LET symbol == considered[k]
                analysis == Mock_analyze_stock(w.out[symbol])
            IN  IF ~ IsError(analysis) THEN <<Entry(symbol, analysis)>> ELSE <<>>
    IN  Let(LAMBDA results : Ranked(considered, results, limit),
            FlatMap(one, 1, Len(considered)))

(***************************************************************************)
(* The batch routes of routes/stock.py                                     *)
(***************************************************************************)
\* stock_service = AlphaVantageService(API_KEY)
stock_service == "AlphaVantageService"

\* the methods and attributes each service class defines
Methods ==
    [AlphaVantageService |->
        {"popular_stocks", "get_stock_quote", "get_daily_data", "get_technical_indicators",
         "calculate_volume_surge", "calculate_sma_signals", "analyze_stock",
         "get_market_overview", "get_potential_stocks", "search_stocks"},
     StockDataService |->
        {"popular_stocks", "get_stock_info", "get_historical_data",
         "calculate_technical_indicators", "detect_volume_surge",
         "detect_breakout_signals", "detect_reversal_signals", "analyze_stock",
         "get_market_overview", "get_potential_stocks"}]

\* a call of a method the object lacks raises AttributeError
HasMethod(service, m) == m \in Methods[service]

\* the names routes/stock.py imports or binds at module level
RouteGlobals ==
    {"Blueprint", "request", "jsonify", "AlphaVantageService", "datetime", "timedelta",
     "traceback", "os", "stock_bp", "API_KEY", "stock_service"}

\* the use of a name the module does not bind raises NameError
IsDefined(name) == name \in RouteGlobals

\* symbol.upper()
Upper(symbol) == IF symbol = "aapl" THEN "AAPL" ELSE symbol

\* the provider has nothing for a symbol it does not list
AnswerOf(w, symbol) == IF symbol \in Symbols THEN w.out[symbol] ELSE w.unlisted

\* stock_service.analyze_stock(symbol)
Analyze(service, w, symbol) ==
    IF service = "AlphaVantageService" THEN w.analysis[AnswerOf(w, symbol).a].AV
    ELSE w.analysis[AnswerOf(w, symbol).a].SDS

\* request.get_json(): None without a JSON body
NoBody == [json |-> FALSE]

Body(symbols) == [json |-> TRUE, symbols |-> symbols]

MaxBatch == 20

\* POST /stocks/batch-analysis
batch_analyze_stocks(w, body) ==
    IF ~ body.json THEN [status |-> 500]
    ELSE IF Len(body.symbols) = 0 THEN [status |-> 400]
    ELSE IF Len(body.symbols) > MaxBatch THEN [status |-> 400]
    ELSE LET symbols == body.symbols
             one(k) ==
                 LET symbol == Upper(symbols[k])
                     analysis == Analyze(stock_service, w, symbol)
                 IN  IF analysis = Raised THEN <<>>
                     ELSE IF IsError(analysis) THEN <<>>
                     ELSE IF ~ HasMethod(stock_service, "get_stock_info") THEN <<>>
                     ELSE <<[symbol |-> symbol, score |-> analysis.score,
                             signal_count |-> Len(analysis.signals)]>>
             results == FlatMap(one, 1, Len(symbols))
         IN  [status |-> 200, results |-> results, count |-> Len(results)]

\* one turn of the loop of update_stock_data: TRUE when it ends in
\* updated_count += 1, FALSE when it ends in errors.append
Updated(w, symbol) ==
    IF ~ HasMethod(stock_service, "get_historical_data") THEN FALSE
    ELSE IF AnswerOf(w, symbol).a \in {"none", "malformed"} THEN FALSE
    ELSE IF ~ HasMethod(stock_service, "calculate_technical_indicators") THEN FALSE
    ELSE IF ~ IsDefined("db_service") THEN FALSE
    ELSE AnswerOf(w, symbol).info

\* POST /data/update
update_stock_data(w, body) ==
    IF ~ body.json THEN [status |-> 500]
    ELSE LET symbols == IF Len(body.symbols) = 0
                        THEN PyHead(popular_stocks("US"), 10) \o PyHead(popular_stocks("HK"), 10)
                        ELSE body.symbols
             ok == [k \in 1..Len(symbols) |-> Updated(w, symbols[k])]
             errors == Filter(symbols, [k \in 1..Len(symbols) |-> ~ ok[k]], Len(symbols))
         IN  [status |-> 200,
              updated_count |-> Cardinality({ k \in 1..Len(symbols) : ok[k] }),
              total_symbols |-> Len(symbols),
              errors |-> errors]

\* GET /stocks/<symbol>/analysis
get_stock_analysis(w, symbol_) ==
    LET symbol == Upper(symbol_)
        analysis == Analyze(stock_service, w, symbol)
    IN  IF analysis = Raised THEN [status |-> 500]
        ELSE IF IsError(analysis) THEN [status |-> 404]
        ELSE IF ~ HasMethod(stock_service, "get_stock_info") THEN [status |-> 500]
        ELSE [status |-> 200, symbol |-> symbol, score |-> analysis.score,
              info |-> AnswerOf(w, symbol).info]

valid_periods == {"1d", "5d", "1mo", "3mo", "6mo", "1y", "2y", "5y", "10y", "ytd", "max"}

\* GET /stocks/<symbol>/data
get_stock_data(w, symbol_, period) ==
    LET symbol == Upper(symbol_)
    IN  IF period \notin valid_periods THEN [status |-> 400]
        ELSE IF ~ HasMethod(stock_service, "get_historical_data") THEN [status |-> 500]
        ELSE IF AnswerOf(w, symbol).a = "none" THEN [status |-> 404]
        ELSE IF AnswerOf(w, symbol).a = "malformed" THEN [status |-> 500]
        ELSE IF ~ HasMethod(stock_service, "calculate_technical_indicators")
        THEN [status |-> 500]
        ELSE [status |-> 200, symbol |-> symbol, period |-> period,
              count |-> AnswerInput(AnswerOf(w, symbol).a).len]

\* GET /stocks/<symbol>/signals
get_stock_signals(w, symbol_) ==
    LET symbol == Upper(symbol_)
    IN  IF ~ HasMethod(stock_service, "get_historical_data") THEN [status |-> 500]
        ELSE IF AnswerOf(w, symbol).a = "none" THEN [status |-> 404]
        ELSE IF AnswerOf(w, symbol).a = "malformed" THEN [status |-> 500]
        ELSE IF \E m \in {"calculate_technical_indicators", "detect_volume_surge",
                          "detect_breakout_signals", "detect_reversal_signals"} :
                    ~ HasMethod(stock_service, m)
        THEN [status |-> 500]
        ELSE [status |-> 200, symbol |-> symbol]

\* GET /stocks/volume-surge
get_volume_surge_stocks(w, market) ==
    IF market \notin {"US", "HK"} THEN [status |-> 400]
    ELSE IF ~ HasMethod(stock_service, "get_volume_surge_stocks") THEN [status |-> 500]
    ELSE [status |-> 200, market |-> market]

(***************************************************************************)
(* Specification SpecBatch: the batch operations in a world that fixes     *)
(* what the provider (or the random generator) gives for every symbol      *)
(***************************************************************************)
BatchBodies ==
    { NoBody, Body(<<>>), Body(<<"AAPL">>), Body(<<"aapl", "MSFT">>),
      Body(<<"ZZZZ", "AAPL">>), Body(<<"AAPL", "MSFT", "GOOGL">>),
      Body([k \in 1..(MaxBatch + 1) |-> "AAPL"]) }

UpdateBodies ==
    { NoBody, Body(<<>>), Body(<<"AAPL">>), Body(<<"ZZZZ", "AAPL", "0700.HK">>) }

InitBatch ==
    /\ inp = Base /\ data = <<>> /\ signals = <<>> /\ result = NoResult /\ op = Idle
    /\ world \in ProviderWorlds \cup RandomWorlds
    /\ req = NoRequest
    /\ resp = NoResponse
    /\ LimiterInit({})
    /\ DatabaseInit({})

SDSPotential ==
    /\ req = NoRequest /\ world.kind = "provider"
    /\ \E market \in Markets, limit \in Limits :
        /\ req' = [handler |-> "SDS.get_potential_stocks", market |-> market, limit |-> limit]
        /\ resp' = SDS_get_potential_stocks(world, market, limit)
    /\ UNCHANGED <<world, pipeline, limiter, database>>

AVPotential ==
    /\ req = NoRequest /\ world.kind = "provider"
    /\ \E market \in Markets, limit \in Limits :
        /\ req' = [handler |-> "AV.get_potential_stocks", market |-> market, limit |-> limit]
        /\ resp' = AV_get_potential_stocks(world, market, limit)
    /\ UNCHANGED <<world, pipeline, limiter, database>>

MockPotential ==
    /\ req = NoRequest /\ world.kind = "random"
    /\ \E market \in Markets, limit \in Limits :
        /\ req' = [handler |-> "Mock.get_potential_stocks", market |-> market, limit |-> limit]
        /\ resp' = Mock_get_potential_stocks(world, market, limit)
    /\ UNCHANGED <<world, pipeline, limiter, database>>

BatchAnalyze ==
    /\ req = NoRequest /\ world.kind = "provider"
    /\ \E body \in BatchBodies :
        /\ req' = [handler |-> "batch_analyze_stocks", body |-> body]
        /\ resp' = batch_analyze_stocks(world, body)
    /\ UNCHANGED <<world, pipeline, limiter, database>>

UpdateData ==
    /\ req = NoRequest /\ world.kind = "provider"
    /\ \E body \in UpdateBodies :
        /\ req' = [handler |-> "update_stock_data", body |-> body]
        /\ resp' = update_stock_data(world, body)
    /\ UNCHANGED <<world, pipeline, limiter, database>>

RouteSymbols == {"AAPL", "aapl", "GOOGL", "ZZZZ"}

StockAnalysis ==
    /\ req = NoRequest /\ world.kind = "provider"
    /\ \E symbol \in RouteSymbols :
        /\ req' = [handler |-> "get_stock_analysis", symbol |-> symbol]
        /\ resp' = get_stock_analysis(world, symbol)
    /\ UNCHANGED <<world, pipeline, limiter, database>>

StockData ==
    /\ req = NoRequest /\ world.kind = "provider"
    /\ \E symbol \in {"GOOGL"}, period \in {"3mo", "3d"} :
        /\ req' = [handler |-> "get_stock_data", symbol |-> symbol, period |-> period]
        /\ resp' = get_stock_data(world, symbol, period)
    /\ UNCHANGED <<world, pipeline, limiter, database>>

StockSignals ==
    /\ req = NoRequest /\ world.kind = "provider"
    /\ \E symbol \in {"GOOGL"} :
        /\ req' = [handler |-> "get_stock_signals", symbol |-> symbol]
        /\ resp' = get_stock_signals(world, symbol)
    /\ UNCHANGED <<world, pipeline, limiter, database>>

VolumeSurgeStocks ==
    /\ req = NoRequest /\ world.kind = "provider"
    /\ \E market \in Markets :
        /\ req' = [handler |-> "get_volume_surge_stocks", market |-> market]
        /\ resp' = get_volume_surge_stocks(world, market)
    /\ UNCHANGED <<world, pipeline, limiter, database>>

\* the response has been sent
BatchReturn ==
    /\ req # NoRequest
    /\ req' = NoRequest
    /\ resp' = NoResponse
    /\ UNCHANGED <<world, pipeline, limiter, database>>

NextBatch ==
    \/ SDSPotential
    \/ AVPotential
    \/ MockPotential
    \/ BatchAnalyze
    \/ UpdateData
    \/ StockAnalysis
    \/ StockData
    \/ StockSignals
    \/ VolumeSurgeStocks
    \/ BatchReturn

SpecBatch == InitBatch /\ [][NextBatch]_vars

(***************************************************************************)
(* Claims about the batch operations, checked under SpecBatch              *)
(***************************************************************************)
Potential ==
    req.handler \in {"SDS.get_potential_stocks", "AV.get_potential_stocks",
                     "Mock.get_potential_stocks"}

\* what analyze_stock of the service behind the request gives for a symbol
AnalysisFor(symbol) ==
    IF req.handler = "SDS.get_potential_stocks" THEN world.analysis[world.out[symbol].a].SDS
    ELSE IF req.handler = "Mock.get_potential_stocks" THEN Mock_analyze_stock(world.out[symbol])
    ELSE world.analysis[AnswerOf(world, symbol).a].AV

Succeeded(analysis) == analysis # Raised /\ ~ IsError(analysis)

\* C3: every entry get_potential_stocks returns, in each of the three
\* services and for every market and limit, has a score strictly above 30.
C3_ScoreAbove30 ==
    Potential => \A k \in 1..Len(resp.returned) :
                    RGt(resp.returned[k].score, Int2Rat(30))

\* a symbol analysed with score 0 was considered and left out, another returned
C3_Witness ==
    /\ req.handler = "AV.get_potential_stocks"
    /\ Len(resp.returned) > 0
    /\ \E s \in Range(resp.considered) :
        /\ Succeeded(AnalysisFor(s))
        /\ AnalysisFor(s).score = Int2Rat(0)
        /\ \A k \in 1..Len(resp.returned) : resp.returned[k].symbol # s

\* the place of a symbol in the stock list of the requested market
Pos(symbol) ==
    CHOOSE k \in 1..Len(popular_stocks(req.market)) : popular_stocks(req.market)[k] = symbol

\* entry e comes before entry r in the ranking
Before(e, r) ==
    \/ RGt(e.score, r.score)
    \/ (REq(e.score, r.score) /\ Pos(e.symbol) < Pos(r.symbol))

\* C4: the returned list is in non-increasing score order, entries of equal
\* score keep the order of their symbols in the stock list, and the list is the
\* first `limit` entries of that ordering of the collected entries (for a
\* negative limit, Python's slice: all but the last -limit entries).
C4_Ranking ==
    Potential =>
        LET ret == resp.returned
            col == resp.collected
        IN  /\ \A i, j \in 1..Len(ret) : i < j => RGe(ret[i].score, ret[j].score)
            /\ \A i, j \in 1..Len(ret) :
                  (i < j /\ REq(ret[i].score, ret[j].score))
                      => Pos(ret[i].symbol) < Pos(ret[j].symbol)
            /\ Range(ret) \subseteq Range(col)
            /\ \A e \in Range(col) \ Range(ret) : \A r \in Range(ret) : Before(r, e)
            /\ req.limit >= 0 =>
                  Len(ret) = IF req.limit < Len(col) THEN req.limit ELSE Len(col)
            /\ req.limit < 0 =>
                  Len(ret) = IF Len(col) + req.limit > 0 THEN Len(col) + req.limit ELSE 0

\* three entries were collected, the first of them was outranked by two later
\* entries of equal score, and the limit of 2 cut it off
C4_Witness ==
    /\ req.handler = "SDS.get_potential_stocks" /\ req.limit = 2
    /\ Len(resp.collected) >= 3 /\ Len(resp.returned) = 2
    /\ REq(resp.returned[1].score, resp.returned[2].score)
    /\ \A k \in 1..2 : resp.returned[k].symbol # resp.collected[1].symbol

\* the symbols of a list whose analysis succeeds with a score above 30
Candidates(stocks) ==
    { k \in 1..Len(stocks) :
        Succeeded(AnalysisFor(stocks[k])) /\ Qualifies(AnalysisFor(stocks[k])) }

\* C26 as stated: for every limit >= 0 get_potential_stocks of
\* AlphaVantageService and of StockDataService considers every symbol of the
\* market and returns exactly min(limit, number of symbols with score > 30)
\* entries.
C26_AsStated ==
    (/\ req.handler \in {"AV.get_potential_stocks", "SDS.get_potential_stocks"}
     /\ req.limit >= 0) =>
        LET stocks == popular_stocks(req.market)
        IN  /\ resp.considered = stocks
            /\ Len(resp.returned) = Min(req.limit, Cardinality(Candidates(stocks)))

\* C26 (amended): for every limit >= 0, get_potential_stocks of
\* AlphaVantageService considers the first min(limit, 5) symbols of the market
\* only and returns min(limit, number of those with score > 30) entries, at
\* most 5; get_potential_stocks of StockDataService considers the first 20
\* symbols of the market and returns min(limit, number of those with score
\* > 30 whose stock info is available) entries.
C26_Ceiling ==
    /\ (req.handler = "AV.get_potential_stocks" /\ req.limit >= 0) =>
          LET stocks == popular_stocks(req.market)
              first == PyHead(stocks, Min(req.limit, 5))
          IN  /\ resp.considered = first
              /\ Len(resp.returned) = Min(req.limit, Cardinality(Candidates(first)))
              /\ Len(resp.returned) <= 5
    /\ (req.handler = "SDS.get_potential_stocks" /\ req.limit >= 0) =>
          LET stocks == popular_stocks(req.market)
              first == PyHead(stocks, 20)
          IN  /\ resp.considered = first
              /\ Len(resp.returned)
                    = Min(req.limit,
                          Cardinality({ k \in Candidates(first) : world.out[first[k]].info }))

\* AlphaVantageService asked for more than it returns, with a symbol of score
\* above 30 it did not consider
C26_Witness ==
    /\ req.handler = "AV.get_potential_stocks" /\ req.market = "US"
    /\ Len(resp.returned) < req.limit
    /\ Len(resp.considered) = 5
    /\ \E k \in Candidates(PopularUS) : k > 5

\* the symbols the batch route was asked for
Requested == IF req.body.json THEN req.body.symbols ELSE <<>>

\* the batch route accepted the request and started its loop
Accepted ==
    /\ req.handler \in {"batch_analyze_stocks", "update_stock_data"}
    /\ req.body.json
    /\ req.handler = "batch_analyze_stocks" =>
          (Len(req.body.symbols) > 0 /\ Len(req.body.symbols) <= MaxBatch)

\* C9 as stated: in batch_analyze_stocks, update_stock_data and
\* get_potential_stocks the failure of one symbol never aborts the batch: the
\* normal response is returned and it holds the outcomes of the sibling symbols,
\* so every symbol whose own analysis succeeded is in it.
C9_AsStated ==
    /\ (Accepted /\ req.handler = "batch_analyze_stocks"
          /\ \E k \in 1..Len(Requested) :
               ~ Succeeded(Analyze(stock_service, world, Upper(Requested[k]))))
        => /\ resp.status = 200
           /\ \A k \in 1..Len(Requested) :
                Succeeded(Analyze(stock_service, world, Upper(Requested[k])))
                    => \E r \in 1..Len(resp.results) :
                          resp.results[r].symbol = Upper(Requested[k])
    /\ (Accepted /\ req.handler = "update_stock_data")
        => /\ resp.status = 200
           /\ resp.updated_count + Len(resp.errors) = resp.total_symbols
    /\ req.handler = "AV.get_potential_stocks"
        => \A s \in Range(resp.considered) :
              (Succeeded(AnalysisFor(s)) /\ RGt(AnalysisFor(s).score, Int2Rat(30)))
                  => \E r \in 1..Len(resp.collected) : resp.collected[r].symbol = s

\* C10 as stated: the responses of batch_analyze_stocks and update_stock_data
\* account for every requested symbol, as a success or as a reported failure;
\* for update_stock_data, updated_count + len(errors) = total_symbols.
C10_AsStated ==
    /\ (Accepted /\ req.handler = "batch_analyze_stocks")
        => \A k \in 1..Len(Requested) :
              \/ \E r \in 1..Len(resp.results) : resp.results[r].symbol = Upper(Requested[k])
              \/ /\ "errors" \in DOMAIN resp
                 /\ \E r \in 1..Len(resp.errors) : resp.errors[r] = Upper(Requested[k])
    /\ (Accepted /\ req.handler = "update_stock_data")
        => resp.updated_count + Len(resp.errors) = resp.total_symbols

\* the provider answers the requests about a symbol with valid data
ValidData(symbol) ==
    AnswerOf(world, symbol).a \in {"flat", "spike", "step"} /\ AnswerOf(world, symbol).info

\* C27 as stated: every operation a route handler invokes exists on the
\* configured service or on a defined collaborator: for symbols the provider
\* answers with valid data no handler (analysis, data, signals, volume-surge,
\* batch-analysis, data/update) ends in its exception path, and a symbol whose
\* analyze_stock succeeds is returned by the analysis route and is in the
\* batch-analysis results.
C27_AsStated ==
    /\ (req.handler = "get_stock_analysis" /\ ValidData(Upper(req.symbol))
          /\ Succeeded(Analyze(stock_service, world, Upper(req.symbol))))
        => resp.status = 200 /\ resp.symbol = Upper(req.symbol)
    /\ (req.handler = "get_stock_data" /\ ValidData(Upper(req.symbol)))
        => resp.status # 500
    /\ (req.handler = "get_stock_signals" /\ ValidData(Upper(req.symbol)))
        => resp.status # 500
    /\ req.handler = "get_volume_surge_stocks" => resp.status # 500
    /\ (Accepted /\ req.handler = "batch_analyze_stocks")
        => \A k \in 1..Len(Requested) :
              (/\ ValidData(Upper(Requested[k]))
               /\ Succeeded(Analyze(stock_service, world, Upper(Requested[k]))))
                  => \E r \in 1..Len(resp.results) :
                        resp.results[r].symbol = Upper(Requested[k])
    /\ (Accepted /\ req.handler = "update_stock_data" /\ Len(Requested) > 0)
        => \A k \in 1..Len(Requested) :
              ValidData(Requested[k])
                  => \A r \in 1..Len(resp.errors) : resp.errors[r] # Requested[k]

(***************************************************************************)
(* AlphaVantageService._make_request: the request interval.  Time is in    *)
(* whole seconds; a thread is idle, sleeping (time.sleep), ready to send,  *)
(* or waiting for the response.                                            *)
(***************************************************************************)
MaxClock == 45

MaxRequests == 2

\* requests.get(..., timeout=30)
RequestTimeout == 30

\* how requests.get and the lines after it end: a payload, a payload with
\* 'Error Message' or 'Note', a body that is no JSON, an HTTP error status or a
\* connection error (RequestException), a timeout (RequestException)
ResponseOutcomes == {"ok", "error_message", "note", "bad_json", "http_error", "timeout"}

\* the outcomes that end in `except requests.exceptions.RequestException`,
\* before last_request_time is assigned
IsRequestException(outcome) == outcome \in {"http_error", "timeout"}

InFlight == { t \in DOMAIN thr : thr[t].pc \in {"sleeping", "ready"} }

\* current_time = time.time(); time_since_last = current_time - last_request_time;
\* sleep if it is below request_interval
MakeRequest(t) ==
    /\ thr[t].pc = "idle"
    /\ Len(sent) + Cardinality(InFlight) < MaxRequests
    /\ LET current_time == clock
           time_since_last == current_time - last_request_time
       IN  thr' = [thr EXCEPT ![t] =
                      IF time_since_last < request_interval
                      THEN [pc |-> "sleeping",
                            wake |-> clock + (request_interval - time_since_last),
                            sent_at |-> 0]
                      ELSE [pc |-> "ready", wake |-> 0, sent_at |-> 0]]
    /\ UNCHANGED <<clock, last_request_time, sent, raised, pipeline, batch, database>>

\* time.sleep returns once the time has passed
Wake(t) ==
    /\ thr[t].pc = "sleeping"
    /\ clock >= thr[t].wake
    /\ thr' = [thr EXCEPT ![t] = [pc |-> "ready", wake |-> 0, sent_at |-> 0]]
    /\ UNCHANGED <<clock, last_request_time, sent, raised, pipeline, batch, database>>

\* requests.get sends the request
Send(t) ==
    /\ thr[t].pc = "ready"
    /\ sent' = Append(sent, clock)
    /\ thr' = [thr EXCEPT ![t] = [pc |-> "waiting", wake |-> 0, sent_at |-> clock]]
    /\ UNCHANGED <<clock, last_request_time, raised, pipeline, batch, database>>

\* the request ends; last_request_time = time.time() only past raise_for_status
Respond(t) ==
    /\ thr[t].pc = "waiting"
    /\ \E outcome \in ResponseOutcomes :
        /\ outcome = "timeout" => clock >= thr[t].sent_at + RequestTimeout
        /\ last_request_time' = IF IsRequestException(outcome) THEN last_request_time
                                ELSE clock
        /\ raised' = (raised \/ IsRequestException(outcome))
    /\ thr' = [thr EXCEPT ![t] = [pc |-> "idle", wake |-> 0, sent_at |-> 0]]
    /\ UNCHANGED <<clock, sent, pipeline, batch, database>>

\* a second passes
Tick ==
    /\ clock < MaxClock
    /\ clock' = clock + 1
    /\ UNCHANGED <<last_request_time, thr, sent, raised, pipeline, batch, database>>

InitRate ==
    /\ inp = Base /\ data = <<>> /\ signals = <<>> /\ result = NoResult /\ op = Idle
    /\ world = NoWorld /\ req = NoRequest /\ resp = NoResponse
    /\ LimiterInit({1})
    /\ DatabaseInit({})

NextRate ==
    \/ \E t \in DOMAIN thr : MakeRequest(t)
    \/ \E t \in DOMAIN thr : Wake(t)
    \/ \E t \in DOMAIN thr : Send(t)
    \/ \E t \in DOMAIN thr : Respond(t)
    \/ Tick

\* one caller at a time
SpecRate == InitRate /\ [][NextRate]_vars

InitRateShared ==
    /\ inp = Base /\ data = <<>> /\ signals = <<>> /\ result = NoResult /\ op = Idle
    /\ world = NoWorld /\ req = NoRequest /\ resp = NoResponse
    /\ LimiterInit({1, 2})
    /\ DatabaseInit({})

\* two request threads of the server on the one module-level stock_service
SpecRateShared == InitRateShared /\ [][NextRate]_vars

\* C7 as stated: in a sequence of _make_request calls on one instance every
\* outbound request is sent at least request_interval (12 s) after the previous
\* one, whatever the outcome of the previous one.
C7_AsStated ==
    \A k \in 2..Len(sent) : sent[k] - sent[k - 1] >= request_interval

\* C8 as stated: with several threads on the shared instance, and every
\* response a success, no interleaving sends two requests less than
\* request_interval apart.
C8_AsStated ==
    ~ raised => \A i, j \in 1..Len(sent) :
                    i < j => sent[j] - sent[i] >= request_interval

(***************************************************************************)
(* DatabaseService.save_signals on the tables of models/stock.py.  Every   *)
(* thread has its own db.session; what a session has added is seen by its  *)
(* own queries (autoflush) and by the other sessions only once committed.  *)
(***************************************************************************)
MaxCalls == 2

\* the __table_args__ of the models: DailyData and MarketIndex declare a
\* UniqueConstraint, Signal declares none
UniqueConstraints == [daily_data |-> TRUE, signals |-> FALSE, market_indices |-> TRUE]

\* Stock.query.filter_by(symbol=symbol).first()
StockOf(symbol) ==
    IF symbol \in DOMAIN stocks_table THEN Some(<<stocks_table[symbol]>>) ELSE None

\* the lists of signal dicts save_signals is called with
SignalLists ==
    { << [date |-> 40, type |-> "volume_surge"] >>,
      << [date |-> 40, type |-> "volume_surge"], [date |-> 40, type |-> "sma_breakout"] >>,
      << [date |-> 41, type |-> "volume_surge"], [date |-> 41, type |-> "volume_surge"] >> }

\* Signal(stock_id=..., date=..., signal_type=...)
SignalRow(stock_id, signal_data) ==
    [stock_id |-> stock_id, date |-> signal_data.date, signal_type |-> signal_data.type]

SameKey(r, s) ==
    r.stock_id = s.stock_id /\ r.date = s.date /\ r.signal_type = s.signal_type

\* Signal.query.filter_by(stock_id, date, signal_type).first() in session t
Existing(t, row) ==
    \/ \E k \in 1..Len(signals_table) : SameKey(signals_table[k], row)
    \/ \E k \in 1..Len(session[t].pending) : SameKey(session[t].pending[k], row)

\* the INSERTs of session t would break a declared unique constraint
BreaksConstraint(t) ==
    /\ UniqueConstraints.signals
    /\ \E k \in 1..Len(session[t].pending), j \in 1..Len(signals_table) :
          SameKey(session[t].pending[k], signals_table[j])

\* save_signals(symbol, signals) starts: the stock lookup; False without a stock
SaveSignals(t) ==
    /\ session[t].pc = "idle"
    /\ session[t].calls < MaxCalls
    /\ \E symbol \in {"AAPL", "ZZZZ"}, sigs \in SignalLists :
          session' = [session EXCEPT ![t] =
              IF StockOf(symbol).none
              THEN [pc |-> "idle", todo |-> <<>>, pending |-> <<>>, calls |-> @.calls + 1]
              ELSE [pc |-> "loop",
                    todo |-> [k \in 1..Len(sigs) |-> SignalRow(StockOf(symbol).rows[1], sigs[k])],
                    pending |-> <<>>, calls |-> @.calls + 1]]
    /\ UNCHANGED <<signals_table, stocks_table, daily_data_table, pipeline, batch, limiter>>

\* one turn of the loop: query for an existing row, db.session.add if none
CheckAndAdd(t) ==
    /\ session[t].pc = "loop"
    /\ session[t].todo # <<>>
    /\ LET row == Head(session[t].todo)
       IN  session' = [session EXCEPT ![t].todo = Tail(@),
                                      ![t].pending = IF Existing(t, row) THEN @
                                                     ELSE Append(@, row)]
    /\ UNCHANGED <<signals_table, stocks_table, daily_data_table, pipeline, batch, limiter>>

\* db.session.commit() succeeds; return True
Commit(t) ==
    /\ session[t].pc = "loop"
    /\ session[t].todo = <<>>
    /\ ~ BreaksConstraint(t)
    /\ signals_table' = signals_table \o session[t].pending
    /\ session' = [session EXCEPT ![t].pc = "idle", ![t].pending = <<>>]
    /\ UNCHANGED <<stocks_table, daily_data_table, pipeline, batch, limiter>>

\* db.session.commit() raises (the database is gone, or a constraint is
\* broken): db.session.rollback(); return False
Rollback(t) ==
    /\ session[t].pc = "loop"
    /\ session[t].todo = <<>>
    /\ session' = [session EXCEPT ![t].pc = "idle", ![t].pending = <<>>]
    /\ UNCHANGED <<signals_table, stocks_table, daily_data_table, pipeline, batch, limiter>>

InitDb ==
    /\ inp = Base /\ data = <<>> /\ signals = <<>> /\ result = NoResult /\ op = Idle
    /\ world = NoWorld /\ req = NoRequest /\ resp = NoResponse
    /\ LimiterInit({})
    /\ DatabaseInit({1, 2})

NextDb ==
    \/ \E t \in DOMAIN session : SaveSignals(t)
    \/ \E t \in DOMAIN session : CheckAndAdd(t)
    \/ \E t \in DOMAIN session : Commit(t)
    \/ \E t \in DOMAIN session : Rollback(t)

\* two request threads saving signals
SpecDb == InitDb /\ [][NextDb]_vars

\* C11 as stated: after any interleaving of save_signals calls the table
\* `signals` never holds two rows with the same (stock, date, signal_type).
C11_AsStated ==
    \A i, j \in 1..Len(signals_table) :
        i < j => ~ SameKey(signals_table[i], signals_table[j])

(***************************************************************************)
(* DatabaseService.save_stock_data: the stock row is committed on its own, *)
(* the daily rows in one transaction after it.  A row of the frame is its  *)
(* date and whether the table accepts it (a NaN price is a NULL in a       *)
(* NOT NULL column).                                                       *)
(***************************************************************************)
FrameRow(date, ok) == [date |-> date, ok |-> ok]

\* the frames save_stock_data is called with
Frames ==
    { << FrameRow(40, TRUE) >>,
      << FrameRow(40, TRUE), FrameRow(41, TRUE) >>,
      << FrameRow(40, TRUE), FrameRow(41, FALSE) >>,
      << FrameRow(40, TRUE), FrameRow(40, TRUE) >> }

\* StockDataService().get_stock_info(symbol): None when the lookup raises
StockInfo(symbol) == symbol # "ZZZZ"

\* DailyData(stock_id=stock.id, date=row['date'].date(), ...)
DailyRow(stock_id, row) == [stock_id |-> stock_id, date |-> row.date, ok |-> row.ok]

SameDay(r, s) == r.stock_id = s.stock_id /\ r.date = s.date

\* DailyData.query.filter_by(stock_id, date).first() in session t
ExistingDaily(t, row) ==
    \/ \E k \in 1..Len(daily_data_table) : SameDay(daily_data_table[k], row)
    \/ \E k \in 1..Len(session[t].pending) : SameDay(session[t].pending[k], row)

\* the flush of session t raises IntegrityError
Rejected(t) == \E k \in 1..Len(session[t].pending) : ~ session[t].pending[k].ok

\* save_stock_data(symbol, data) starts: the stock lookup, and for a symbol
\* not stored get_stock_info, db.session.add(stock) and db.session.commit();
\* return False without a stock
SaveStockData(t) ==
    /\ session[t].pc = "idle"
    /\ session[t].calls < MaxCalls
    /\ req = NoRequest
    /\ \E symbol \in {"AAPL", "MSFT", "ZZZZ"}, rows \in Frames :
          LET found == StockOf(symbol)
              created == found.none /\ StockInfo(symbol)
              id == IF found.none THEN Cardinality(DOMAIN stocks_table) + 1
                    ELSE found.rows[1]
          IN  /\ req' = [handler |-> "save_stock_data", symbol |-> symbol, rows |-> rows,
                         stock_id |-> id,
                         before |-> [stocks |-> stocks_table, daily |-> daily_data_table]]
              /\ stocks_table' = IF created THEN stocks_table @@ (symbol :> id)
                                 ELSE stocks_table
              /\ IF found.none /\ ~ created
                 THEN /\ resp' = [value |-> FALSE]
                      /\ session' = [session EXCEPT ![t] =
                            [pc |-> "done", todo |-> <<>>, pending |-> <<>>,
                             calls |-> @.calls + 1]]
                 ELSE /\ resp' = NoResponse
                      /\ session' = [session EXCEPT ![t] =
                            [pc |-> "rows",
                             todo |-> [k \in 1..Len(rows) |-> DailyRow(id, rows[k])],
                             pending |-> <<>>, calls |-> @.calls + 1]]
    /\ UNCHANGED <<world, pipeline, limiter, signals_table, daily_data_table>>

\* one turn of the loop: query for an existing row, db.session.add if none
AddDailyData(t) ==
    /\ session[t].pc = "rows"
    /\ session[t].todo # <<>>
    /\ ~ Rejected(t)
    /\ LET row == Head(session[t].todo)
       IN  session' = [session EXCEPT ![t].todo = Tail(@),
                                      ![t].pending = IF ExistingDaily(t, row) THEN @
                                                     ELSE Append(@, row)]
    /\ UNCHANGED <<world, req, resp, pipeline, limiter, signals_table, stocks_table,
                   daily_data_table>>

\* db.session.commit() succeeds; return True
CommitDailyData(t) ==
    /\ session[t].pc = "rows"
    /\ session[t].todo = <<>>
    /\ ~ Rejected(t)
    /\ daily_data_table' = daily_data_table \o session[t].pending
    /\ session' = [session EXCEPT ![t].pc = "done", ![t].pending = <<>>]
    /\ resp' = [value |-> TRUE]
    /\ UNCHANGED <<world, req, pipeline, limiter, signals_table, stocks_table>>

\* a query (autoflush) or db.session.commit() raises on a row the table does
\* not accept: db.session.rollback(); return False
RollbackDailyData(t) ==
    /\ session[t].pc = "rows"
    /\ Rejected(t)
    /\ session' = [session EXCEPT ![t].pc = "done", ![t].todo = <<>>, ![t].pending = <<>>]
    /\ resp' = [value |-> FALSE]
    /\ UNCHANGED <<world, req, pipeline, limiter, signals_table, stocks_table,
                   daily_data_table>>

\* the caller has the return value
SaveReturn(t) ==
    /\ session[t].pc = "done"
    /\ session' = [session EXCEPT ![t].pc = "idle"]
    /\ req' = NoRequest
    /\ resp' = NoResponse
    /\ UNCHANGED <<world, pipeline, limiter, signals_table, stocks_table, daily_data_table>>

InitStore ==
    /\ inp = Base /\ data = <<>> /\ signals = <<>> /\ result = NoResult /\ op = Idle
    /\ world = NoWorld /\ req = NoRequest /\ resp = NoResponse
    /\ LimiterInit({})
    /\ DatabaseInit({1})

NextStore ==
    \/ \E t \in DOMAIN session : SaveStockData(t)
    \/ \E t \in DOMAIN session : AddDailyData(t)
    \/ \E t \in DOMAIN session : CommitDailyData(t)
    \/ \E t \in DOMAIN session : RollbackDailyData(t)
    \/ \E t \in DOMAIN session : SaveReturn(t)

\* one thread saving the data of one symbol after the other
SpecStore == InitStore /\ [][NextStore]_vars

\* save_stock_data has returned this value
Returned(value) ==
    req.handler = "save_stock_data" /\ resp # NoResponse /\ resp.value = value

\* C28 as stated: when save_stock_data returns False the tables `stocks` and
\* `daily_data` hold exactly the rows they held before the call; when it
\* returns True every bar date of the frame has exactly one daily_data row of
\* the stock.
C28_AsStated ==
    /\ Returned(FALSE) =>
          /\ stocks_table = req.before.stocks
          /\ daily_data_table = req.before.daily
    /\ Returned(TRUE) =>
          \A k \in 1..Len(req.rows) :
              Cardinality({ j \in 1..Len(daily_data_table) :
                              /\ daily_data_table[j].stock_id = req.stock_id
                              /\ daily_data_table[j].date = req.rows[k].date }) = 1

(***************************************************************************)
(* AlphaVantageService.get_daily_data: the conversion of the provider's    *)
(* 'Time Series (Daily)' into the list of bars.  A raw value is the string *)
(* the provider sent.                                                      *)
(***************************************************************************)
\* float(s): the number a string denotes; ValueError for a string that
\* denotes none.  float('nan') and float('inf') are floats.
PyFloat(s) ==
    CASE s = "10" -> [ok |-> TRUE, value |-> Int2Rat(10)]
      [] s = "0" -> [ok |-> TRUE, value |-> Int2Rat(0)]
      [] s = "-1" -> [ok |-> TRUE, value |-> Int2Rat(-1)]
      [] s = "nan" -> [ok |-> TRUE, value |-> NaN]
      [] s = "inf" -> [ok |-> TRUE, value |-> Rat(1, 0)]
      [] OTHER -> [ok |-> FALSE, value |-> NaN]

\* int(s): ValueError unless the string is an integer literal
PyInt(s) ==
    CASE s = "10" -> [ok |-> TRUE, value |-> 10]
      [] s = "0" -> [ok |-> TRUE, value |-> 0]
      [] s = "-1" -> [ok |-> TRUE, value |-> -1]
      [] OTHER -> [ok |-> FALSE, value |-> 0]

PriceKeys == {"open", "high", "low", "close"}

\* the strings the provider sends for a price or a volume
RawStrings == {"10", "0", "-1", "nan", "inf", "abc"}

\* values of one date with every key present and "10" in every field
GoodValues == [k \in PriceKeys \cup {"volume"} |-> "10"]

\* values of one date: good, or one field with another string, or one key absent
RawValues ==
    {GoodValues}
    \cup { [GoodValues EXCEPT ![k] = s] : k \in PriceKeys \cup {"volume"}, s \in RawStrings }
    \cup { [j \in (PriceKeys \cup {"volume"}) \ {k} |-> "10"] : k \in PriceKeys \cup {"volume"} }

\* the body of the try: a bar, or the except branch (continue)
ParseBar(date_str, values) ==
    IF \E k \in PriceKeys \cup {"volume"} : k \notin DOMAIN values THEN <<>>
    ELSE IF \E k \in PriceKeys : ~ PyFloat(values[k]).ok THEN <<>>
    ELSE IF ~ PyInt(values["volume"]).ok THEN <<>>
    ELSE << [date |-> date_str,
             open |-> PyFloat(values["open"]).value,
             high |-> PyFloat(values["high"]).value,
             low |-> PyFloat(values["low"]).value,
             close |-> PyFloat(values["close"]).value,
             volume |-> PyInt(values["volume"]).value] >>

RECURSIVE SortedKeys(_)
\* the keys of sorted(time_series.items()), ascending
SortedKeys(S) ==
    IF S = {} THEN <<>>
    ELSE LET m == CHOOSE x \in S : \A y \in S : x <= y
         IN  <<m>> \o SortedKeys(S \ {m})

\* what _make_request returned: None, a payload without 'Time Series (Daily)',
\* or a payload with it
RawAnswers ==
    { [none |-> TRUE, series |-> FALSE], [none |-> FALSE, series |-> FALSE] }
    \cup { [none |-> FALSE, series |-> TRUE,
            time_series |-> [d \in {1, 2, 3} |-> IF d = 3 THEN GoodValues ELSE f[d]]] :
             f \in [{1, 2} -> RawValues] }

get_daily_data(data_) ==
    IF data_.none \/ ~ data_.series THEN None
    ELSE LET time_series == data_.time_series
             dates == SortedKeys(DOMAIN time_series)
             one(k) == ParseBar(dates[k], time_series[dates[k]])
         IN  Some(FlatMap(one, 1, Len(dates)))

InitIngest ==
    /\ inp = Base /\ data = <<>> /\ signals = <<>> /\ result = NoResult /\ op = Idle
    /\ world \in { [kind |-> "raw", answer |-> a] : a \in RawAnswers }
    /\ req = NoRequest
    /\ resp = NoResponse
    /\ LimiterInit({})
    /\ DatabaseInit({})

GetDailyData ==
    /\ req = NoRequest /\ world.kind = "raw"
    /\ req' = [handler |-> "get_daily_data"]
    /\ resp' = get_daily_data(world.answer)
    /\ UNCHANGED <<world, pipeline, limiter, database>>

NextIngest ==
    \/ GetDailyData
    \/ BatchReturn

SpecIngest == InitIngest /\ [][NextIngest]_vars

\* a float that is a positive finite number
PositiveFinite(x) == x.d > 0 /\ x.n > 0

\* the raw values denote a bar whose four prices are positive finite numbers
ValidBar(values) ==
    /\ \A k \in PriceKeys \cup {"volume"} : k \in DOMAIN values
    /\ \A k \in PriceKeys : PyFloat(values[k]).ok /\ PositiveFinite(PyFloat(values[k]).value)
    /\ PyInt(values["volume"]).ok

\* C12 as stated: get_daily_data never returns a bar with a non-finite or
\* non-positive open, high, low or close, and it keeps every other bar.
C12_AsStated ==
    (req.handler = "get_daily_data" /\ ~ resp.none) =>
        /\ \A k \in 1..Len(resp.rows) :
              \A f \in PriceKeys : PositiveFinite(resp.rows[k][f])
        /\ \A d \in DOMAIN world.answer.time_series :
              ValidBar(world.answer.time_series[d])
                  => \E k \in 1..Len(resp.rows) : resp.rows[k].date = d

(***************************************************************************)
(* Two histories with a common beginning: the indicator calculator and the *)
(* three detectors of StockDataService run on both, as analyze_stock runs  *)
(* them on one.                                                            *)
(***************************************************************************)
\* the bars up to which two histories are compared
Cuts == {10, 25, 39, 55}

\* the two histories agree on bars 1..i (and on what the provider data says
\* of the order of macd and macd_signal there)
Agree(a, b, i) ==
    /\ i <= a.len /\ i <= b.len
    /\ \A k \in 1..i :
          /\ Bar(a, k) = Bar(b, k)
          /\ (k >= a.macdUp) = (k >= b.macdUp)

\* the histories that are paired: those of the smallest volume base and gap,
\* of 19, 25 or 60 bars
PairInputs == { i \in Inputs : i.vbase <= 1 /\ i.gap <= 1 /\ i.len # 51 }

\* the longer history first
Pairs ==
    { p \in PairInputs \X PairInputs \X Cuts :
        p[1] # p[2] /\ p[1].len >= p[2].len /\ Agree(p[1], p[2], p[3]) }

\* the signals of the three detectors on the rows of one history
all_signals(i, rows) ==
    LET d == calculate_technical_indicators(i, rows)
    IN  detect_volume_surge(d, DefaultThreshold) \o detect_breakout_signals(d)
        \o detect_reversal_signals(d)

InitLookAhead ==
    /\ \E p \in Pairs :
          /\ inp = p[1]
          /\ world = [kind |-> "pair", other |-> p[2], upto |-> p[3]]
    /\ data = Bars(inp)
    /\ signals = <<>> /\ result = NoResult /\ op = Idle
    /\ req = NoRequest /\ resp = NoResponse
    /\ LimiterInit({})
    /\ DatabaseInit({})

AnalyzePair ==
    /\ op = Idle /\ world.kind = "pair"
    /\ data' = calculate_technical_indicators(inp, data)
    /\ signals' = all_signals(inp, data)
    /\ resp' = [data |-> calculate_technical_indicators(world.other, Bars(world.other)),
                signals |-> all_signals(world.other, Bars(world.other))]
    /\ op' = [name |-> "analyze_pair"]
    /\ UNCHANGED <<inp, result, world, req, limiter, database>>

NextLookAhead == AnalyzePair

SpecLookAhead == InitLookAhead /\ [][NextLookAhead]_vars

\* the signals of a list dated on or before bar i
DatedUpTo(sigs, i) == { s \in Range(sigs) : s.date <= i }

ReversalTypes == {"hammer_reversal", "macd_golden_cross"}

\* the two annotated histories have the same rows 1..i
SameIndicators(i) == \A k \in 1..i : data[k] = resp.data[k]

====
